---- MODULE Spec2Model ----
(***************************************************************************)
(* NVMe/TCP host transport (src/lib/nvme/nvme_nvda_tcp.c): one I/O qpair   *)
(* attached to a poll group, its request table, CID pool, outstanding      *)
(* list, send queue and PDU receive state machine, together with the      *)
(* accel sequences and socket buffers the requests hold.                   *)
(***************************************************************************)
EXTENDS Integers, Sequences, FiniteSets, TLC

\* ------------------------------------------------------------------ bounds
\* tqpair->num_entries: the queue size minus one.
NumEntries == 1
\* payload_size of every data request, in abstract units.
PayloadSize == 1
\* Requests the application allocates and submits over a run.
MaxSubmits == 2

\* Send requests given to the socket over a run, and the bytes of one.
MaxSockReqs == 3
MaxSockLen == 2
\* g_spdk_xlio_sock_impl_opts.zerocopy_threshold, in the same units.
ZerocopyThreshold == 2
MaxCallsBeforeWrap == 2

\* Packets a socket receives over a run, the buffers of one and the bytes of
\* a buffer; receive calls over a run and the bytes one asks for.
MaxPackets == 2
MaxPacketBufs == 2
MaxBufLen == 2
MaxRecvs == 3
MaxRecvLen == 2

\* Threads that create and free memory maps, the maps allocated over a run,
\* the maps one thread holds at a time and the addresses of a map.
NumThreads == 2
MaxMaps == 2
MaxHeld == 2
MaxAddr == 2

\* spdk_get_ticks_hz() and the ticks of a run; connects of the qpair.
TicksHz == 1
MaxTicks == 4
MaxConnects == 2

\* tqpair->maxh2cdata, the payload of the request that answers R2T PDUs and
\* the R2T PDUs the target sends for it.
MaxH2cData == 1
H2cPayloadSize == 3
MaxR2ts == 3

\* PDU headers received by the qpair whose header handling is followed.
MaxHdrPdus == 2

\* cpda values an IC_RESP can set (nvme_tcp_icresp_handle rejects a cpda above
\* SPDK_NVME_TCP_CPDA_MAX) and payload sizes of the PDUs built.
MaxCpda == 31
MaxDataLen == 2

\* Poll group of nvme_tcp_read_pdu: poll_group_requests, commands a qpair
\* submits, queue entries of a qpair, data bytes of a C2H_DATA PDU, and the
\* bytes one read can bring when it does not bring all that is in flight;
\* past MaxSplitOffset bytes of a PDU the rest of the stream comes in one read.
MaxPoolRequests == 2
MaxRxSubmits == 2
RxNumEntries == 1
RxDataLen == 2
MaxChunk == 9
MaxSplitOffset == 36

\* Needs_poll list: PDUs a qpair has with its socket, requests it has
\* queued, accel operations it has in flight.
MaxNpWrites == 1
MaxNpQueued == 1
MaxNpAccel == 1

\* Socket group: requests a socket has queued or pending, packets it holds unread, ring
\* entries allocated over a run, max_events of a poll.
MaxXgQueued == 1
MaxXgPackets == 1
MaxXgRings == 2
MaxXgEvents == 2

\* Send batching: requests on the queue, bytes of a request, ticks of the clock,
\* and the largest values of the three batching options.
MaxBatchQueued == 3
MaxBatchLen == 2
MaxBatchTicks == 6
MaxBatchTimeout == 1
MaxBatchIovcnt == 3
MaxBatchBytes == 4

\* Receive state machine: PDUs the target sends, requests submitted, data bytes
\* of a PDU, and the bytes of a PDU up to which the socket delivers one byte at
\* a time.
MaxRecvPdus == 2
MaxRecvSubmits == 1
MaxRecvDatal == 1
MaxRecvSplit == 2

\* --------------------------------------------------------------- constants
UINT16_MAX == 65535

\* As the int32_t with the same bits.
UINT32_MAX == -1
IOV_BATCH_SIZE == 64
SPDK_SEC_TO_USEC == 1000000
NVME_TCP_TIME_OUT_IN_SECONDS == 2
NULL == 0
NVME_TCP_MAX_R2T_DEFAULT == 1
SPDK_NVME_TCP_DIGEST_LEN == 4
COMMON_PDU_HDR_LEN == 8
SPDK_NVME_TCP_TERM_REQ_ERROR_DATA_MAX_SIZE == 152
SPDK_NVME_TCP_TERM_REQ_PDU_MAX_SIZE ==
    SPDK_NVME_TCP_TERM_REQ_ERROR_DATA_MAX_SIZE + 24

\* g_spdk_nvme_transport_opts.poll_group_requests: one object more than CIDs,
\* so the CID pool can run dry while a request object is still free.
PoolRequests == NumEntries + 1
Reqs == 1..PoolRequests
Cids == 0..(NumEntries - 1)

\* Payload descriptors of a request (struct nvme_payload and its opts).
\*   contig  contiguous buffer, no opts: a read, or a write with its data in
\*           the capsule (the transport treats both alike up to completion)
\*   zread   C2H, NVME_PAYLOAD_TYPE_ZCOPY
\*   mdread  C2H, opts->memory_domain
\*   mdwrite H2C in capsule, opts->accel_sequence
Kinds == {"contig", "zread", "mdread", "mdwrite"}
C2HKinds == {"zread", "mdread"}

SC_SUCCESS == "SUCCESS"
SC_TARGET_ERROR == "TARGET_ERROR"
SC_ABORTED_SQ_DELETION == "ABORTED_SQ_DELETION"
SC_INTERNAL_DEVICE_ERROR == "INTERNAL_DEVICE_ERROR"
SC_TRANSIENT_TRANSPORT_ERROR == "COMMAND_TRANSIENT_TRANSPORT_ERROR"

\* No user callback for the request in this step.
NoCb == [sc |-> "none", send_ack |-> FALSE, data_recv |-> FALSE, ddgst_failed |-> FALSE]

\* nvme_transport_ctrlr_disconnect_qpair did not disconnect in this step.
NoReturn == [recv_state |-> "none", send_queue |-> <<>>, needs_poll |-> FALSE]

\* nvme_tcp_qpair_submit_request did not run in this step.
NoSubmit == [ret |-> "none", why |-> "none", req |-> NULL]

VARIABLES
    tqpair,     \* struct nvme_tcp_qpair
    qpair,      \* struct spdk_nvme_qpair (generic layer)
    tcp_reqs,   \* struct nvme_tcp_req, per request object
    nvme_reqs,  \* struct nvme_request embedded in each tcp_req
    accel,      \* callbacks owed to each request object: accel sequences, iobuf waits
    hist,       \* history: requests awaiting their callback, what the last step did
    sock,       \* xlio socket, send side: struct spdk_sock and sendmsg_idx
    packets,    \* xlio socket, receive side: received packets and chunk buffers
    g_rdma_utils_mr_maps,   \* rdma_utils: the registry of memory maps
    conn,       \* the qpair while it connects: state, IC_REQ deadline, ticks
    r2t_req,    \* a request answering R2T PDUs: struct nvme_tcp_req, its PDUs
    recv_hdr,   \* a qpair receiving a PDU header: its state, the header, the term req
    send_hdr,   \* a PDU being built for sending, with the negotiated cpda and digests
    tgroup,     \* a poll group, its receive PDUs, two qpairs and the bytes they receive
    pgroup,     \* a poll group's needs_poll list and the qpairs that may be on it
    xgroup,     \* an xlio socket group, its pending lists and rings, and two sockets
    vsock,      \* a socket's send batching (xlio_sock_flush_now)
    rqpair      \* a qpair's receive state machine (nvme_tcp_read_pdu)

vars == <<tqpair, qpair, tcp_reqs, nvme_reqs, accel, hist, sock, packets, g_rdma_utils_mr_maps, conn, r2t_req, recv_hdr, send_hdr, tgroup, pgroup, xgroup, vsock, rqpair>>

\* The other parts while one part runs: a socket with nothing queued and
\* nothing received, an empty registry, no connect in progress.
SockIdle == [zcopy |-> FALSE, queued_reqs |-> <<>>, pending_reqs |-> <<>>,
             sendmsg_idx |-> 0, zc_calls |-> 0, acked |-> 0, hung |-> FALSE,
             completed |-> <<>>, done_sent_by |-> <<>>, submitted |-> 0]
PacketsIdle ==
    [pkts |-> <<>>, received_packets |-> <<>>,
     cur_xlio_buf |-> [pkt |-> 0, idx |-> 0], cur_offset |-> 0,
     bufs |-> <<>>, delivered |-> <<>>, arrived |-> 0,
     closed |-> FALSE, calls |-> 0, len |-> 0, ret |-> 0]
MemMapsIdle ==
    [list |-> <<>>, maps |-> <<>>, mutex |-> 0, xlate |-> [map |-> 0, address |-> 0, length |-> 0, ret |-> "none"],
     thread |-> [t \in 1..NumThreads |->
                    [pc |-> "idle", pd |-> 0, hooks |-> FALSE, accel_flags |-> 0,
                     map |-> 0, held |-> <<>>]]]
ConnIdle ==
    [state |-> "INVALID", qstate |-> "DISCONNECTED", icreq_send_ack |-> FALSE,
     icreq_pending |-> FALSE, term_req_pending |-> FALSE, icreq_timeout_tsc |-> 0, ticks |-> 0,
     quiesced |-> FALSE, reached |-> FALSE, connects |-> 0,
     transport_failure_reason |-> "NONE",
     poll |-> [ran |-> FALSE, state |-> "none", ticks |-> 0, rc |-> "none"]]

R2tIdle ==
    [state |-> "FREE", ndebug |-> FALSE, abort |-> FALSE, submits |-> 0,
     send_ack |-> FALSE, data_recv |-> FALSE,
     h2c_send_waiting_ack |-> FALSE, r2t_waiting_h2c_complete |-> FALSE,
     active_r2ts |-> 0, ttag |-> 0, r2tl_remain |-> 0,
     ttag_r2t_next |-> 0, r2tl_remain_next |-> 0, datao |-> 0,
     send_queue |-> <<>>, recv_state |-> "AWAIT_PDU_READY",
     term |-> [fes |-> "none", error_offset |-> "none"],
     pdus |-> <<>>, r2ts |-> <<>>, completed |-> 0]

HdrIdle ==
    [state |-> "INVALID", recv_state |-> "AWAIT_PDU_CH", host_hdgst_enable |-> FALSE,
     pdus |-> 0,
     pdu |-> [pdu_type |-> "none", hlen |-> 0, plen |-> 0, pdo |-> 0,
              hdgstf |-> FALSE, last_pdu |-> FALSE, success |-> FALSE,
              has_hdgst |-> FALSE],
     detected |-> [fes |-> "none", error_offset |-> 0,
                   pdu |-> [pdu_type |-> "none", hlen |-> 0, plen |-> 0, pdo |-> 0,
                            hdgstf |-> FALSE, last_pdu |-> FALSE,
                            success |-> FALSE, has_hdgst |-> FALSE],
                   state |-> "none", seq |-> 0],
     send_pdu |-> [pdu_type |-> "none", hlen |-> 0, fes |-> 0, fei |-> 0,
                   data_len |-> 0, plen |-> 0],
     dispatched |-> <<>>]

SendHdrIdle ==
    [cpda |-> 0, host_hdgst_enable |-> FALSE, host_ddgst_enable |-> FALSE,
     pdu |-> [pdu_type |-> "none", hlen |-> 0, pdo |-> 0, padding_len |-> 0,
              plen |-> 0, hdgstf |-> FALSE, ddgstf |-> FALSE, data_len |-> 0]]

RxNoPdu ==
    [held |-> FALSE, pdu_type |-> "none", ch_valid_bytes |-> 0,
     psh_valid_bytes |-> 0, psh_len |-> 0, data_len |-> 0, rw_offset |-> 0]

RxQpairIdle ==
    [state |-> "INVALID", icreq_send_ack |-> TRUE,
     host_hdgst_enable |-> FALSE, host_ddgst_enable |-> FALSE,
     outstanding |-> 0, submits |-> 0, completed |-> 0,
     stream |-> <<>>, delivered |-> 0, sock |-> 0,
     recv_state |-> "AWAIT_PDU_READY", recv_pdu |-> RxNoPdu, dispatched |-> <<>>]

TgroupIdle ==
    [recv_pdus |-> 0, free_pdus |-> 0, free_req |-> 0,
     q |-> [q \in {1, 2} |-> RxQpairIdle]]

NpQpairs == {1, 2}

NpQpairIdle ==
    [needs_poll |-> FALSE, poll_group |-> FALSE, qstate |-> "DISCONNECTED",
     state |-> "INVALID", queued_req |-> 0, send_queue |-> 0, accel |-> 0]

PgroupIdle ==
    [needs_poll |-> <<>>, q |-> [q \in NpQpairs |-> NpQpairIdle],
     op |-> "none", start |-> {}, polled |-> <<>>, readded |-> {}, gone |-> {},
     crashed |-> FALSE]

\* Two sockets of one interface, which share its ring (fd).
XgSocks == {1, 2}

XgSockIdle ==
    [group_impl |-> FALSE, cb_fn |-> FALSE, pending_recv |-> FALSE,
     pending_send |-> FALSE, queued_reqs |-> <<>>, pending_reqs |-> 0,
     packets |-> 0, ring_fd |-> NULL, fd |-> 1]

XgroupIdle ==
    [pending_recv |-> <<>>, pending_send |-> <<>>, ring_fd |-> <<>>, rings |-> <<>>,
     s |-> [s \in XgSocks |-> XgSockIdle],
     op |-> "none", arg |-> NULL, returned |-> <<>>, over |-> FALSE]

\* A connected qpair with its own receive PDU, nothing outstanding and nothing
\* received.
RqpairIdle ==
    [recv_state |-> "AWAIT_PDU_READY", qstate |-> "CONNECTED",
     outstanding |-> 0, in_accel |-> 0, submits |-> 0,
     pdu |-> [ch_valid_bytes |-> 0, psh_valid_bytes |-> 0, psh_len |-> 0,
              data_len |-> 0, rw_offset |-> 0],
     stream |-> <<>>, sent |-> 0, next |-> 1, delivered |-> 0, sock |-> 0,
     sock_err |-> FALSE,
     path |-> <<>>, read_in |-> {}, handled |-> <<>>, rc |-> 0,
     assert_failed |-> FALSE]

\* A socket with the batching options: calloc leaves batch_nr and
\* batch_start_tsc 0.
VsockIdle ==
    [batch_nr |-> 0, batch_start_tsc |-> 0, queued_reqs |-> <<>>, queued_iovcnt |-> 0,
     flush_batch_timeout |-> 0, flush_batch_iovcnt_threshold |-> 0,
     flush_batch_bytes_threshold |-> 0, ticks_hz |-> SPDK_SEC_TO_USEC, now |-> 1,
     flush_now |-> "none"]

\* The whole state as one record, so that each C function is an operator
\* from state to state.
World == [tqpair |-> tqpair, qpair |-> qpair, tcp_reqs |-> tcp_reqs,
          nvme_reqs |-> nvme_reqs, accel |-> accel,
          hist |-> [hist EXCEPT !.cb = [r \in Reqs |-> NoCb],
                                !.dup_cb = FALSE,
                                !.disconnect_ret = NoReturn,
                                !.aborting = {},
                                !.acked = NULL,
                                !.freed_on_closed = FALSE,
                                !.free_ret = "none",
                                !.async_complete = 0,
                                !.submit = NoSubmit,
                                !.ddgst_error = FALSE,
                                !.mkey_failed = NULL],
          rc |-> "OK",
          env |-> [accel_ok |-> TRUE, iobuf_ok |-> TRUE, digest_ok |-> TRUE,
                   sgl_ok |-> TRUE, mkey_ok |-> TRUE]]

Apply(W) ==
    \E V \in {W} :
        /\ tqpair' = V.tqpair
        /\ qpair' = V.qpair
        /\ tcp_reqs' = V.tcp_reqs
        /\ nvme_reqs' = V.nvme_reqs
        /\ accel' = V.accel
        /\ hist' = V.hist
        /\ UNCHANGED <<sock, packets, g_rdma_utils_mr_maps, conn, r2t_req, recv_hdr, send_hdr,
                   tgroup, pgroup, xgroup, vsock, rqpair>>

Min(S) == CHOOSE x \in S : \A y \in S : x <= y

RECURSIVE SeqRemove(_, _)
SeqRemove(s, e) ==
    IF s = <<>> THEN <<>>
    ELSE IF Head(s) = e THEN Tail(s)
    ELSE <<Head(s)>> \o SeqRemove(Tail(s), e)

InSeq(s, e) == \E i \in 1..Len(s) : s[i] = e

\* F of x, with x worked out once: C's "v = x; ... v ... v ...".
With(x, F(_)) == CHOOSE y \in {F(v) : v \in {x}} : TRUE

\* ------------------------------------------------------- struct accessors
nvme_payload_type_zcopy(W, r) == W.nvme_reqs[r].kind = "zread"

nvme_tcp_req_with_memory_domain(W, r) ==
    r # NULL /\ W.nvme_reqs[r].kind \in {"mdread", "mdwrite"}

xfer_c2h(W, r) == W.nvme_reqs[r].kind \in C2HKinds

spdk_nvme_cpl_is_error(sc) == sc # SC_SUCCESS

spdk_nvme_qpair_is_connected(W) == W.qpair.state = "CONNECTED"

\* Undefined behaviour met while running a handler: remembered, so that the
\* step can end either with the process going on or with it dead.
UB(W) == [W EXCEPT !.hist.ub = TRUE]

\* A callback k is owed to request object r from the call that asks for it
\* (spdk_accel_sequence_finish, submit_accel_crc32c, spdk_iobuf_get) until it
\* runs. Finishing a sequence that is already in flight for the same object
\* is outside what the accel framework defines.
accel_start(W, r, k) ==
    IF k \in W.accel[r] THEN UB(W) ELSE [W EXCEPT !.accel[r] = @ \cup {k}]

accel_done(W, r, k) == [W EXCEPT !.accel[r] = @ \ {k}]

\* ----------------------------------------------------------- request pool
\* The fields nvme_tcp_req_get writes before any other code reads them.
ResetReq(t) ==
    [t EXCEPT !.expected_datao = 0,
              !.send_ack = FALSE, !.data_recv = FALSE,
              !.in_progress_accel = FALSE, !.digest_offloaded = FALSE,
              !.pdu = [flags |-> {}, data_len |-> 0],
              !.rsp = SC_SUCCESS, !.iobuf = FALSE, !.sock_buf = 0,
              !.ddgst_failed = FALSE]

\* nvme_tcp_req_get taking CID 0 again when the bit pool has none left.
nvme_tcp_req_get_pool_dry(W, r) ==
    LET pool == W.tqpair.flags.use_poll_group_req_pool
        free == Cids \ W.tqpair.cid_pool
        cid == IF ~pool THEN W.tcp_reqs[r].cid
               ELSE IF free = {} THEN 0 ELSE Min(free)
    IN  [W EXCEPT !.tqpair.cid_pool = IF pool THEN @ \cup {cid} ELSE @,
                  !.tqpair.tcp_reqs_lookup[cid] = r,
                  !.tcp_reqs[r] = [ResetReq(@) EXCEPT !.state = "ACTIVE", !.cid = cid],
                  !.rc = "OK"]

nvme_tcp_req_get(W, r) ==
    LET pool == W.tqpair.flags.use_poll_group_req_pool
        free == Cids \ W.tqpair.cid_pool
        \* assert(tcp_req->state == NVME_TCP_REQ_FREE)
        checked(V) == IF V.tcp_reqs[r].state # "FREE" THEN UB(V) ELSE V
        take(V, cid) ==
            [V EXCEPT !.tqpair.cid_pool = IF pool THEN @ \cup {cid} ELSE @,
                      !.tqpair.tcp_reqs_lookup[cid] = r,
                      !.tcp_reqs[r] = [ResetReq(@) EXCEPT !.state = "ACTIVE",
                                                          !.cid = cid],
                      !.rc = "OK"]
    IN  IF pool /\ free = {}
        THEN [W EXCEPT !.rc = "EAGAIN", !.hist.submit.why = "cid_pool_empty"]
        ELSE take(checked(W), IF pool THEN Min(free) ELSE W.tcp_reqs[r].cid)

\* A released request keeps its other fields as they were: a callback or a
\* PDU that still points to it reads them.
nvme_tcp_req_put(W, r) ==
    LET cid == W.tcp_reqs[r].cid
        pool == W.tqpair.flags.use_poll_group_req_pool
        \* assert(tcp_req->state != NVME_TCP_REQ_FREE); for a request released
        \* twice in pool mode tcp_reqs_lookup[UINT16_MAX] is a write outside
        \* the table.
        checked(V) ==
            IF V.tcp_reqs[r].state = "FREE" \/ cid \notin Cids THEN UB(V) ELSE V
        put(V) ==
            [V EXCEPT !.tqpair.tcp_reqs_lookup =
                          IF cid \in Cids THEN [@ EXCEPT ![cid] = NULL] ELSE @,
                      !.tqpair.cid_pool = IF pool THEN @ \ {cid} ELSE @,
                      !.tcp_reqs[r].state = "FREE",
                      !.tcp_reqs[r].iobuf = FALSE,
                      !.tcp_reqs[r].cid = IF pool THEN UINT16_MAX ELSE @]
    IN  put(checked(W))

\* ------------------------------------------------------------------- Init
\* tqpair->recv_pdu while no PDU is being received.
NoPdu == [type |-> "none", req |-> NULL, flags |-> {}, data_len |-> 0, rw_offset |-> 0]

InitReq(pool, r) ==
    [state |-> "FREE",
     cid |-> IF pool THEN UINT16_MAX ELSE r - 1,
     expected_datao |-> 0,
     send_ack |-> FALSE, data_recv |-> FALSE,
     in_progress_accel |-> FALSE, digest_offloaded |-> FALSE,
     pdu |-> [flags |-> {}, data_len |-> 0],
     rsp |-> SC_SUCCESS, iobuf |-> FALSE, sock_buf |-> 0,
     \* history: the data digest of a C2H_DATA PDU of the request did not match
     ddgst_failed |-> FALSE]

\* A connected I/O qpair; mem_map is the memory map the connect creates when
\* the socket reports a protection domain.
InitWith(pools, ddgsts, mem_maps) ==
    \E pool \in pools, ddgst \in ddgsts, mem_map \in mem_maps :
        /\ tqpair = [sock |-> TRUE,
                     mem_map |-> mem_map,
                     outstanding_reqs |-> <<>>,
                     send_queue |-> <<>>,
                     recv_pdu |-> NoPdu,
                     recv_state |-> "AWAIT_PDU_READY",
                     cid_pool |-> {},
                     tcp_reqs_lookup |-> [c \in Cids |-> NULL],
                     num_entries |-> NumEntries,
                     flags |-> [host_ddgst_enable |-> ddgst,
                                use_poll_group_req_pool |-> pool],
                     state |-> "RUNNING",
                     needs_poll |-> FALSE]
        /\ qpair = [state |-> "CONNECTED", outstanding_zcopy_reqs |-> 0]
        /\ tcp_reqs = [r \in Reqs |-> InitReq(pool, r)]
        /\ nvme_reqs = [r \in Reqs |-> [st |-> "FREE", kind |-> "none",
                                         cid |-> IF pool THEN UINT16_MAX ELSE r - 1]]
        /\ accel = [r \in Reqs |-> {}]
        /\ hist = [pending |-> [r \in Reqs |-> FALSE],
                   cb |-> [r \in Reqs |-> NoCb],
                   dup_cb |-> FALSE,
                   disconnect_ret |-> NoReturn,
                   aborting |-> {},
                   acked |-> NULL,
                   ub |-> FALSE,
                   freed_on_closed |-> FALSE,
                   free_ret |-> "none",
                   async_complete |-> 0,
                   submit |-> NoSubmit,
                   ddgst_error |-> FALSE,
                   mkey_failed |-> NULL,
                   crashed |-> FALSE,
                   submits |-> 0]

\* The socket reports no protection domain.
\* The qpair takes its requests from the poll group's pool or from its own,
\* and negotiates the data digest with its own requests.
Init ==
    /\ \/ InitWith(BOOLEAN, {FALSE}, {FALSE})
       \/ InitWith({FALSE}, {TRUE}, {FALSE})
    /\ sock = SockIdle /\ packets = PacketsIdle
    /\ g_rdma_utils_mr_maps = MemMapsIdle /\ conn = ConnIdle /\ r2t_req = R2tIdle
    /\ recv_hdr = HdrIdle /\ send_hdr = SendHdrIdle /\ tgroup = TgroupIdle
    /\ pgroup = PgroupIdle /\ xgroup = XgroupIdle /\ vsock = VsockIdle /\ rqpair = RqpairIdle

\* The socket reports a protection domain; requests come from the qpair's own
\* array and no data digest was negotiated.
MkeyInit ==
    /\ InitWith(BOOLEAN, {FALSE}, {TRUE})
    /\ sock = SockIdle /\ packets = PacketsIdle
    /\ g_rdma_utils_mr_maps = MemMapsIdle /\ conn = ConnIdle /\ r2t_req = R2tIdle
    /\ recv_hdr = HdrIdle /\ send_hdr = SendHdrIdle /\ tgroup = TgroupIdle
    /\ pgroup = PgroupIdle /\ xgroup = XgroupIdle /\ vsock = VsockIdle /\ rqpair = RqpairIdle

\* A qpair that nothing is submitted to, while another part runs.
QpairIdle == InitWith({FALSE}, {FALSE}, {FALSE})

\* ------------------------------------------- generic NVMe layer, sockets
\* The user's completion callback of request r, with status sc.
nvme_complete_request(W, r, sc) ==
    [W EXCEPT !.hist.cb[r].sc = sc,
              !.hist.pending[r] = FALSE,
              !.hist.dup_cb = @ \/ ~W.hist.pending[r] \/ W.hist.cb[r].sc # "none"]

\* A zero-copy request stays with the user until free_request.
nvme_complete_request_zcopy(W, r, sc) ==
    nvme_complete_request([W EXCEPT !.nvme_reqs[r].st = "COMPLETED"], r, sc)

\* The request object goes back to the free list; releasing a zero-copy
\* request drops the qpair's count of zero-copy requests.
nvme_free_request(W, r) ==
    LET W0 == IF W.nvme_reqs[r].st = "FREE" THEN UB(W) ELSE W
        z == W.nvme_reqs[r].kind = "zread"
    IN  [W0 EXCEPT !.nvme_reqs[r].st = "FREE",
                   !.qpair.outstanding_zcopy_reqs = IF z /\ @ > 0 THEN @ - 1 ELSE @]

\* Releasing received packet buffers: the packets belong to the socket, so a
\* release of n > 0 buffers after the socket was closed touches freed memory.
spdk_sock_free_bufs(W, n) ==
    IF n > 0 /\ ~W.tqpair.sock
    THEN UB([W EXCEPT !.hist.freed_on_closed = TRUE])
    ELSE W

\* The socket is closed; what it still had to send is dropped with it.
spdk_sock_close(W) == [W EXCEPT !.tqpair.sock = FALSE]

\* TAILQ_INSERT_TAIL(&tqpair->send_queue, pdu, tailq): the PDU is on the send
\* queue, not yet with the socket.
nvme_tcp_qpair_prepare_pdu(W, type, r) ==
    [W EXCEPT !.tqpair.send_queue = Append(@, [type |-> type, req |-> r, sent |-> FALSE])]

\* spdk_sock_writev_async of the PDU just queued: the socket has it and owes
\* its acknowledgement.
spdk_sock_writev_async(W) ==
    [W EXCEPT !.tqpair.send_queue[Len(W.tqpair.send_queue)].sent = TRUE]

\* nvme_tcp_qpair_write_pdu, through _tcp_write_pdu.
nvme_tcp_qpair_write_pdu(W, type, r) ==
    spdk_sock_writev_async(nvme_tcp_qpair_prepare_pdu(W, type, r))

\* The PDU the socket acknowledges next: the first it was given.
FirstSent(q) == Min({i \in 1..Len(q) : q[i].sent})

SeqRemoveAt(q, i) == SubSeq(q, 1, i - 1) \o SubSeq(q, i + 1, Len(q))

needs_poll_insert(W) == [W EXCEPT !.tqpair.needs_poll = TRUE]

needs_poll_remove(W) == [W EXCEPT !.tqpair.needs_poll = FALSE]

\* !STAILQ_EMPTY(&qpair->queued_req): requests the generic layer keeps for a
\* later submit after -EAGAIN.
queued_req_nonempty(W) == \E r \in Reqs : W.nvme_reqs[r].st = "QUEUED"

nvme_tcp_qpair_set_recv_state(W, state) ==
    IF W.tqpair.recv_state = state THEN W
    ELSE LET \* assert(TAILQ_EMPTY(&tqpair->outstanding_reqs)) for ERROR
             W0 == IF state = "ERROR" /\ W.tqpair.outstanding_reqs # <<>>
                   THEN UB(W) ELSE W
             \* nvme_tcp_recv_pdu_put on READY and ERROR; in QUIESCING the PDU is
             \* not read again.
         IN  [W0 EXCEPT !.tqpair.recv_state = state,
                        !.tqpair.recv_pdu =
                            IF state \in {"AWAIT_PDU_READY", "ERROR", "QUIESCING"}
                            THEN NoPdu ELSE @]

\* ------------------------------------------------------------- completion
_nvme_tcp_req_complete(W, r, sc) ==
    With(\* TAILQ_REMOVE of a request that is not on the list
         IF InSeq(W.tqpair.outstanding_reqs, r)
         THEN [W EXCEPT !.tqpair.outstanding_reqs = SeqRemove(@, r),
                        !.hist.cb[r].send_ack = W.tcp_reqs[r].send_ack,
                        !.hist.cb[r].data_recv = W.tcp_reqs[r].data_recv,
                        !.hist.cb[r].ddgst_failed = W.tcp_reqs[r].ddgst_failed]
         ELSE UB([W EXCEPT !.hist.cb[r].send_ack = W.tcp_reqs[r].send_ack,
                           !.hist.cb[r].data_recv = W.tcp_reqs[r].data_recv,
                           !.hist.cb[r].ddgst_failed = W.tcp_reqs[r].ddgst_failed]),
         LAMBDA V :
             IF nvme_payload_type_zcopy(V, r)
             THEN nvme_complete_request_zcopy(V, r, sc)
             ELSE nvme_complete_request(
                      nvme_free_request(nvme_tcp_req_put(V, r), r), r, sc))

nvme_tcp_req_complete_memory_domain(W, r, sc) ==
    LET out(V) ==
            IF xfer_c2h(V, r)
            THEN _nvme_tcp_req_complete(
                     [spdk_sock_free_bufs(V, V.tcp_reqs[r].sock_buf)
                        EXCEPT !.tcp_reqs[r].sock_buf = 0], r, sc)
            ELSE _nvme_tcp_req_complete(V, r, sc)
    IN  IF xfer_c2h(W, r)
           /\ ~spdk_nvme_cpl_is_error(sc)
           /\ ~W.tcp_reqs[r].digest_offloaded
           /\ W.env.accel_ok
        THEN accel_start([W EXCEPT !.tcp_reqs[r].in_progress_accel = TRUE],
                         r, "md_copy")
        ELSE out(W)

nvme_tcp_req_complete(W, r, sc) ==
    IF nvme_tcp_req_with_memory_domain(W, r)
    THEN nvme_tcp_req_complete_memory_domain(W, r, sc)
    ELSE _nvme_tcp_req_complete(W, r, sc)

nvme_tcp_req_complete_safe(W, r) ==
    IF ~(W.tcp_reqs[r].send_ack /\ W.tcp_reqs[r].data_recv)
    THEN W
    ELSE \* assert(tcp_req->state == NVME_TCP_REQ_ACTIVE)
         nvme_tcp_req_complete(IF W.tcp_reqs[r].state # "ACTIVE" THEN UB(W) ELSE W,
                               r, W.tcp_reqs[r].rsp)

\* TAILQ_FOREACH_SAFE over the outstanding list as it stood on entry.
RECURSIVE abort_reqs_loop(_, _)
abort_reqs_loop(W, todo) ==
    IF todo = <<>> THEN W
    ELSE LET r == Head(todo)
         IN  IF W.tcp_reqs[r].in_progress_accel
             THEN abort_reqs_loop(W, Tail(todo))
             ELSE abort_reqs_loop(
                      nvme_tcp_req_complete(
                          [spdk_sock_free_bufs(W, W.tcp_reqs[r].sock_buf)
                             EXCEPT !.tcp_reqs[r].sock_buf = 0],
                          r, SC_ABORTED_SQ_DELETION),
                      Tail(todo))

nvme_tcp_qpair_abort_reqs(W) == abort_reqs_loop(W, W.tqpair.outstanding_reqs)

\* ------------------------------------------------------------------ submit
\* The data of a capsule is translated to memory keys when the qpair has a
\* memory map; a capsule without data has nothing to translate.
nvme_tcp_fill_mkeys(W, r) ==
    IF ~W.tqpair.mem_map THEN W
    ELSE IF W.nvme_reqs[r].kind \notin {"contig", "mdwrite"} \/ W.env.mkey_ok THEN W
    ELSE [W EXCEPT !.rc = "ERR", !.hist.mkey_failed = r]

nvme_tcp_qpair_capsule_cmd_send(W, r) ==
    With(nvme_tcp_fill_mkeys(
             [nvme_tcp_qpair_prepare_pdu(W, "CAPSULE_CMD", r) EXCEPT !.rc = "OK"], r),
         LAMBDA W0 :
             IF W0.rc # "OK" THEN W0   \* return -1
             ELSE spdk_sock_writev_async(W0))

nvme_tcp_apply_accel_sequence_in_capsule(W, r) ==
    IF ~W.env.accel_ok THEN [W EXCEPT !.rc = "ENOMEM"]
    ELSE
    LET W0 == IF W.tqpair.flags.host_ddgst_enable
              THEN [W EXCEPT !.tcp_reqs[r].digest_offloaded = TRUE]
              ELSE W
    IN  accel_start([W0 EXCEPT !.tqpair.outstanding_reqs = Append(@, r),
                               !.tcp_reqs[r].in_progress_accel = TRUE,
                               !.rc = "EINPROGRESS"],
                    r, "in_capsule")

\* nvme_tcp_req_build fails when next_sge_fn fails or the scatter-gather list
\* is shorter than the payload (nvme_tcp_build_sgl_request).
nvme_tcp_req_init(W, r) ==
    [W EXCEPT !.nvme_reqs[r].cid = W.tcp_reqs[r].cid,
              !.rc = IF W.nvme_reqs[r].kind = "contig" /\ ~W.env.sgl_ok
                     THEN "ERR" ELSE "OK"]

nvme_tcp_qpair_submit_request(W, r) ==
    With(nvme_tcp_req_get(W, r), LAMBDA W0 :
        IF W0.rc # "OK" THEN W0
        ELSE With(nvme_tcp_req_init(W0, r), LAMBDA W1 :
            IF W1.rc # "OK"
            THEN \* return -1
                 [nvme_tcp_req_put(W1, r) EXCEPT !.rc = "ERR",
                                                 !.hist.submit.why = "sgl_build_failed"]
            ELSE IF W1.nvme_reqs[r].kind = "mdwrite"
            THEN IF ~W1.env.iobuf_ok
                 THEN \* return 0: nvme_tcp_iobuf_get_cb will go on once a
                      \* buffer is free
                      [accel_start(W1, r, "iobuf_wait")
                         EXCEPT !.hist.submit.why = "no_iobuf"]
                 ELSE [nvme_tcp_apply_accel_sequence_in_capsule(
                           [W1 EXCEPT !.tcp_reqs[r].iobuf = TRUE], r)
                         EXCEPT !.rc = IF @ = "EINPROGRESS" THEN "OK" ELSE @]
            ELSE nvme_tcp_qpair_capsule_cmd_send(
                     [W1 EXCEPT !.tqpair.outstanding_reqs = Append(@, r)], r)))

nvme_tcp_iobuf_get_cb(W, r) ==
    With(nvme_tcp_apply_accel_sequence_in_capsule(
             accel_done([W EXCEPT !.tcp_reqs[r].iobuf = TRUE], r, "iobuf_wait"), r),
         LAMBDA W1 :
             IF W1.rc # "EINPROGRESS"
             THEN nvme_tcp_req_complete(W1, r, SC_INTERNAL_DEVICE_ERROR)
             ELSE W1)

\* -------------------------------------------------------------- disconnect
nvme_tcp_poll_group_disconnect_qpair(W) == needs_poll_remove(W)

\* nvme_tcp_ctrlr_disconnect_qpair leaving the send queue as it is.
nvme_tcp_ctrlr_disconnect_qpair_keep_queue(W) ==
    nvme_tcp_qpair_set_recv_state(
        nvme_tcp_qpair_abort_reqs(
            needs_poll_remove(
                [W EXCEPT !.hist.aborting =
                    {r \in Reqs : InSeq(W.tqpair.outstanding_reqs, r)
                                  /\ ~W.tcp_reqs[r].in_progress_accel}])),
        "QUIESCING")

nvme_tcp_ctrlr_disconnect_qpair(W) ==
    With(needs_poll_remove(
             [W EXCEPT !.hist.aborting =
                 {r \in Reqs : InSeq(W.tqpair.outstanding_reqs, r)
                               /\ ~W.tcp_reqs[r].in_progress_accel}]),
         LAMBDA W0 :
    With(IF W0.qpair.outstanding_zcopy_reqs = 0 THEN spdk_sock_close(W0) ELSE W0,
         LAMBDA W1 :
             nvme_tcp_qpair_set_recv_state(
                 nvme_tcp_qpair_abort_reqs([W1 EXCEPT !.tqpair.send_queue = <<>>]),
                 "QUIESCING")))

\* Generic layer: a qpair already disconnecting or disconnected is left alone;
\* otherwise it becomes DISCONNECTING, leaves the poll group's connected list
\* and the transport disconnects it.
nvme_transport_ctrlr_disconnect_qpair(W) ==
    IF W.qpair.state \in {"DISCONNECTING", "DISCONNECTED"} THEN W
    ELSE With(nvme_tcp_ctrlr_disconnect_qpair(
                  nvme_tcp_poll_group_disconnect_qpair(
                      [W EXCEPT !.qpair.state = "DISCONNECTING"])),
              LAMBDA V :
                  [V EXCEPT !.hist.disconnect_ret =
                      [recv_state |-> V.tqpair.recv_state,
                       send_queue |-> V.tqpair.send_queue,
                       needs_poll |-> V.tqpair.needs_poll]])

nvme_transport_ctrlr_disconnect_qpair_done(W) ==
    [W EXCEPT !.qpair.state = "DISCONNECTED"]

\* --------------------------------------------------------------- send path
nvme_tcp_qpair_cmd_send_complete(W, r) ==
    nvme_tcp_req_complete_safe([W EXCEPT !.tcp_reqs[r].send_ack = TRUE,
                                         !.hist.acked = r], r)

nvme_tcp_qpair_send_h2c_term_req_complete(W) ==
    [W EXCEPT !.tqpair.state = "EXITING"]

\* The socket's answer for the PDU at the head of the send queue.
_pdu_write_done(W, err) ==
    With([(IF ~W.tqpair.needs_poll
              /\ (queued_req_nonempty(W)
                  \/ W.tqpair.state \in {"FABRIC_CONNECT_POLL", "INITIALIZING"})
           THEN needs_poll_insert(W) ELSE W)
            EXCEPT !.tqpair.send_queue = SeqRemoveAt(@, FirstSent(@))],
         LAMBDA W1 :
             IF err THEN nvme_transport_ctrlr_disconnect_qpair(W1)
             ELSE With(W.tqpair.send_queue[FirstSent(W.tqpair.send_queue)], LAMBDA pdu :
                  IF pdu.type = "CAPSULE_CMD"
                  THEN nvme_tcp_qpair_cmd_send_complete(W1, pdu.req)
                  ELSE nvme_tcp_qpair_send_h2c_term_req_complete(W1)))

nvme_tcp_qpair_send_h2c_term_req(W) ==
    nvme_tcp_qpair_write_pdu(
        nvme_tcp_qpair_set_recv_state(W, "QUIESCING"), "H2C_TERM_REQ", NULL)

\* --------------------------------------------------------- accel callbacks
\* assert(tcp_req->ordering.bits.in_progress_accel), on a request object that
\* may have been released meanwhile.
accel_cb_enter(W, r, k) ==
    accel_done([(IF ~W.tcp_reqs[r].in_progress_accel \/ W.tcp_reqs[r].state = "FREE"
                 THEN UB(W) ELSE W)
                   EXCEPT !.tcp_reqs[r].in_progress_accel = FALSE], r, k)

disconnecting(W) ==
    W.tqpair.recv_state = "QUIESCING" \/ ~spdk_nvme_qpair_is_connected(W)

_nvme_tcp_accel_finished_in_capsule(W, r, status) ==
    With(accel_cb_enter(W, r, "in_capsule"), LAMBDA W0 :
        IF status # 0 THEN nvme_tcp_req_complete(W0, r, SC_INTERNAL_DEVICE_ERROR)
        ELSE IF disconnecting(W0)
        THEN nvme_tcp_req_complete(W0, r, SC_ABORTED_SQ_DELETION)
        ELSE With(nvme_tcp_qpair_capsule_cmd_send(W0, r), LAMBDA W1 :
                 IF W1.rc # "OK"
                 THEN nvme_tcp_req_complete([W1 EXCEPT !.rc = "OK"], r,
                                            SC_INTERNAL_DEVICE_ERROR)
                 ELSE W1))

nvme_tcp_req_accel_seq_complete_cb(W, r, status) ==
    With(accel_cb_enter(W, r, "md_copy"), LAMBDA W0 :
    With([spdk_sock_free_bufs(W0, W0.tcp_reqs[r].sock_buf)
            EXCEPT !.tcp_reqs[r].sock_buf = 0],
         LAMBDA W1 :
    With(IF status # 0
         THEN [W1 EXCEPT !.tcp_reqs[r].rsp = SC_INTERNAL_DEVICE_ERROR]
         ELSE IF disconnecting(W1)
         THEN [W1 EXCEPT !.tcp_reqs[r].rsp = SC_ABORTED_SQ_DELETION]
         ELSE W1,
         LAMBDA W2 : _nvme_tcp_req_complete(W2, r, W2.tcp_reqs[r].rsp))))

\* tcp_req->datao only feeds rsp.status.p, which is not kept here.
nvme_tcp_c2h_data_payload_handle(W, r, flags, data_len) ==
    IF "LAST_PDU" \in flags /\ "SUCCESS" \in flags
    THEN nvme_tcp_req_complete_safe(
             [W EXCEPT !.tcp_reqs[r].data_recv = TRUE], r)
    ELSE W

\* "data digest error": the request's response takes the transient transport
\* error status.
digest_error(W, r) ==
    [W EXCEPT !.tcp_reqs[r].rsp = SC_TRANSIENT_TRANSPORT_ERROR,
              !.tcp_reqs[r].ddgst_failed = TRUE,
              !.hist.ddgst_error = TRUE]

nvme_tcp_req_accel_seq_complete_crc_c2h_cb(W, r, status) ==
    With(accel_cb_enter(W, r, "c2h_crc"), LAMBDA W0 :
    With(IF queued_req_nonempty(W0) /\ ~W0.tqpair.needs_poll
         THEN needs_poll_insert(W0) ELSE W0,
         LAMBDA W1 :
    With(IF status # 0
         THEN digest_error(W1, r)
         ELSE IF disconnecting(W1)
         THEN [W1 EXCEPT !.tcp_reqs[r].rsp = SC_ABORTED_SQ_DELETION]
         ELSE W1,
         LAMBDA W2 :
             nvme_tcp_c2h_data_payload_handle(W2, r, W2.tcp_reqs[r].pdu.flags,
                                              W2.tcp_reqs[r].pdu.data_len))))

tcp_data_recv_crc32_done(W, r, status) ==
    With(accel_done(IF W.tcp_reqs[r].state = "FREE" THEN UB(W) ELSE W, r, "crc32"),
         LAMBDA W0 :
    With(IF ~W0.tqpair.needs_poll THEN needs_poll_insert(W0) ELSE W0,
         LAMBDA W1 :
    With(IF status # 0 THEN digest_error(W1, r) ELSE W1,
         LAMBDA W2 :
             nvme_tcp_c2h_data_payload_handle(W2, r, W2.tcp_reqs[r].pdu.flags,
                                              W2.tcp_reqs[r].pdu.data_len))))

\* ------------------------------------------------------------ receive path
get_nvme_active_req_by_cid(W, cid) ==
    IF cid >= W.tqpair.num_entries THEN NULL ELSE W.tqpair.tcp_reqs_lookup[cid]

nvme_tcp_capsule_resp_hdr_handle(W, cid, sc) ==
    LET r == get_nvme_active_req_by_cid(W, cid)
    IN  IF r = NULL THEN nvme_tcp_qpair_send_h2c_term_req(W)
        ELSE nvme_tcp_req_complete_safe(
                 nvme_tcp_qpair_set_recv_state(
                     [W EXCEPT !.tcp_reqs[r].rsp = sc,
                               !.tcp_reqs[r].data_recv = TRUE],
                     "AWAIT_PDU_READY"), r)

nvme_tcp_c2h_data_hdr_handle(W, cid, flags, datao, datal) ==
    LET r == get_nvme_active_req_by_cid(W, cid)
    IN  IF \/ r = NULL
           \/ ("SUCCESS" \in flags /\ "LAST_PDU" \notin flags)
           \/ datal > PayloadSize
           \/ W.tcp_reqs[r].expected_datao # datao
           \/ datao + datal > PayloadSize
        THEN nvme_tcp_qpair_send_h2c_term_req(W)
        ELSE \* a PDU without data is never handled (nvme_tcp_read_pdu returns
             \* before reading), so its flags are not kept
             nvme_tcp_qpair_set_recv_state(
                 [W EXCEPT !.tqpair.recv_pdu =
                     [type |-> "C2H_DATA", req |-> r,
                      flags |-> IF datal = 0 THEN {} ELSE flags,
                      data_len |-> datal, rw_offset |-> 0]],
                 "AWAIT_PDU_PAYLOAD")

nvme_tcp_c2h_term_req_payload_handle(W) ==
    nvme_tcp_qpair_set_recv_state(W, "QUIESCING")

\* recv_pdu as it was on entry is passed in: set_recv_state may already have
\* handed the PDU back to the group's pool and cleared tqpair->recv_pdu.
_nvme_tcp_pdu_payload_handle(W, pdu) ==
    LET W0 == IF W.tqpair.recv_pdu = NoPdu
                 /\ W.tqpair.flags.use_poll_group_req_pool
              THEN UB(W) ELSE W
    IN  nvme_tcp_qpair_set_recv_state(
            nvme_tcp_c2h_data_payload_handle(W0, pdu.req, pdu.flags, pdu.data_len),
            "AWAIT_PDU_READY")

nvme_tcp_apply_accel_sequence_c2h(W, r) ==
    IF ~W.env.accel_ok THEN [W EXCEPT !.rc = "ENOMEM"]
    ELSE accel_start([W EXCEPT !.tcp_reqs[r].in_progress_accel = TRUE,
                               !.rc = "OK"],
                     r, "c2h_crc")

nvme_tcp_pdu_payload_handle(W) ==
    LET pdu == W.tqpair.recv_pdu
        r == pdu.req
        transient_error(V) ==
            _nvme_tcp_pdu_payload_handle(digest_error(V, r), pdu)
    IN  With([W EXCEPT !.tcp_reqs[r].expected_datao = @ + pdu.data_len], LAMBDA W0 :
            IF ~W0.tqpair.flags.host_ddgst_enable
            THEN _nvme_tcp_pdu_payload_handle(W0, pdu)
            ELSE IF /\ W0.qpair.state = "CONNECTED"
                    /\ PayloadSize = pdu.data_len
                    /\ ~nvme_payload_type_zcopy(W0, r)
            THEN With(nvme_tcp_qpair_set_recv_state(
                          [W0 EXCEPT !.tcp_reqs[r].pdu =
                              [flags |-> pdu.flags, data_len |-> pdu.data_len]],
                          "AWAIT_PDU_READY"),
                      LAMBDA W1 :
                 IF nvme_tcp_req_with_memory_domain(W1, r)
                 THEN With(nvme_tcp_apply_accel_sequence_c2h(
                               [W1 EXCEPT !.tcp_reqs[r].digest_offloaded = TRUE], r),
                           LAMBDA W2 :
                               IF W2.rc # "OK"
                               THEN transient_error([W2 EXCEPT !.rc = "OK"])
                               ELSE W2)
                 ELSE \* accel_fn_table.submit_accel_crc32c
                      accel_start(W1, r, "crc32"))
            ELSE IF W0.env.digest_ok
            THEN _nvme_tcp_pdu_payload_handle(W0, pdu)
            ELSE transient_error(W0))

\* One read of n units of the PDU's data from the socket, into the request's
\* buffer or, for zero-copy and memory-domain requests, as packet buffers
\* chained on the request.
nvme_tcp_read_payload(W, n) ==
    LET pdu == W.tqpair.recv_pdu
        r == pdu.req
    IN  With(IF W.tcp_reqs[r].state = "FREE" THEN UB(W) ELSE W, LAMBDA W0 :
        With([W0 EXCEPT !.tcp_reqs[r].sock_buf =
                            IF nvme_payload_type_zcopy(W0, r)
                               \/ nvme_tcp_req_with_memory_domain(W0, r)
                            THEN @ + n ELSE @,
                        !.tqpair.recv_pdu.rw_offset = @ + n],
             LAMBDA W2 :
                 IF W2.tqpair.recv_pdu.rw_offset < pdu.data_len THEN W2
                 ELSE nvme_tcp_pdu_payload_handle(W2)))

nvme_tcp_qpair_free_request(W, r) ==
    LET t == get_nvme_active_req_by_cid(W, W.nvme_reqs[r].cid)
    IN  With(nvme_free_request(
                 IF t # NULL
                 THEN nvme_tcp_req_put(
                          [spdk_sock_free_bufs(W, W.tcp_reqs[t].sock_buf)
                             EXCEPT !.tcp_reqs[t].sock_buf = 0], t)
                 ELSE [W EXCEPT !.rc = "EINVAL"], r),
             LAMBDA W1 :
                 \* tqpair->async_complete++: hist.async_complete is what the
                 \* step has added to the counter the next poll reaps
                 [(IF queued_req_nonempty(W1) /\ ~W1.tqpair.needs_poll
                   THEN needs_poll_insert(W1) ELSE W1)
                    EXCEPT !.hist.async_complete = @ + 1,
                           !.hist.free_ret = W1.rc])

\* ------------------------------------------------------------- poll group
\* What the socket has for the qpair in one poll: nothing, a whole PDU header
\* (common and specific part), payload bytes, or a read error.
\* AWAIT_PDU_READY: the loop goes on to wait for a common header.
nvme_tcp_read_pdu_ready(W) ==
    IF W.tqpair.recv_state = "AWAIT_PDU_READY"
    THEN nvme_tcp_qpair_set_recv_state(W, "AWAIT_PDU_CH")
    ELSE W

\* AWAIT_PDU_CH to AWAIT_PDU_PAYLOAD, with what the socket has.
nvme_tcp_read_pdu_event(W, ev) ==
    IF ev.type = "none" \/ W.tqpair.recv_state \in {"QUIESCING", "ERROR"} THEN W
    ELSE IF ev.type = "error"
    THEN [nvme_tcp_qpair_set_recv_state(W, "QUIESCING") EXCEPT !.rc = "EIO"]
    ELSE IF ev.type = "capsule_resp"
    THEN nvme_tcp_capsule_resp_hdr_handle(W, ev.cid, ev.sc)
    ELSE IF ev.type = "c2h_data"
    THEN nvme_tcp_c2h_data_hdr_handle(W, ev.cid, ev.flags, ev.datao, ev.datal)
    ELSE IF ev.type = "c2h_term_req"
    THEN nvme_tcp_c2h_term_req_payload_handle(W)
    ELSE IF ev.type = "bad_pdu"
    THEN nvme_tcp_qpair_send_h2c_term_req(W)
    ELSE nvme_tcp_read_payload(W, ev.n)

nvme_tcp_read_pdu_input(W, ev) ==
    nvme_tcp_read_pdu_event(nvme_tcp_read_pdu_ready(W), ev)

\* The QUIESCING case without its test of the outstanding list.
nvme_tcp_read_pdu_quiesce_unguarded(W) ==
    IF W.tqpair.recv_state = "ERROR" THEN [W EXCEPT !.rc = "FATAL"]
    ELSE IF W.tqpair.recv_state = "QUIESCING"
    THEN [nvme_tcp_qpair_set_recv_state(
              IF W.qpair.state = "DISCONNECTING"
              THEN nvme_transport_ctrlr_disconnect_qpair_done(W) ELSE W,
              "ERROR")
            EXCEPT !.rc = "FATAL"]
    ELSE W

\* The rest of the do-while loop once the socket has nothing more.
\* QUIESCING and ERROR.
nvme_tcp_read_pdu_quiesce(W) ==
    IF W.tqpair.recv_state = "ERROR" THEN [W EXCEPT !.rc = "FATAL"]
    ELSE IF W.tqpair.recv_state = "QUIESCING" /\ W.tqpair.outstanding_reqs = <<>>
    THEN [nvme_tcp_qpair_set_recv_state(
              IF W.qpair.state = "DISCONNECTING"
              THEN nvme_transport_ctrlr_disconnect_qpair_done(W) ELSE W,
              "ERROR")
            EXCEPT !.rc = "FATAL"]
    ELSE W

nvme_tcp_read_pdu_settle(W) ==
    nvme_tcp_read_pdu_quiesce(nvme_tcp_read_pdu_ready(W))

nvme_tcp_read_pdu(W, ev) ==
    nvme_tcp_read_pdu_settle(nvme_tcp_read_pdu_input(W, ev))

nvme_tcp_qpair_process_completions(W, ev) ==
    With(nvme_tcp_read_pdu(W, ev), LAMBDA W0 :
        IF W0.rc # "OK"
        THEN nvme_transport_ctrlr_disconnect_qpair([W0 EXCEPT !.rc = "ENXIO"])
        ELSE W0)

\* spdk_nvme_qpair_process_completions reaches the transport for a connected
\* or disconnecting qpair only.
nvme_tcp_qpair_sock_cb(W, ev) ==
    IF W.qpair.state \in {"CONNECTED", "DISCONNECTING"}
    THEN nvme_tcp_qpair_process_completions(needs_poll_remove(W), ev)
    ELSE needs_poll_remove(W)

nvme_tcp_poll_group_process_completions(W, ev) ==
    With(\* spdk_sock_group_poll
         IF ev.type = "none" THEN W
         ELSE IF ev.type = "ack" THEN _pdu_write_done(W, ev.err)
         ELSE nvme_tcp_qpair_sock_cb(W, ev),
         LAMBDA W0 :
    With(\* the group's disconnected qpairs
         IF W0.qpair.state \in {"DISCONNECTING", "DISCONNECTED"}
            /\ W0.qpair.outstanding_zcopy_reqs = 0
         THEN With(IF W0.tqpair.sock THEN spdk_sock_close(W0) ELSE W0, LAMBDA W1 :
                  IF W1.qpair.state = "DISCONNECTING"
                     /\ W1.tqpair.outstanding_reqs = <<>>
                  THEN nvme_transport_ctrlr_disconnect_qpair_done(W1)
                  ELSE W1)
         ELSE W0,
         LAMBDA W2 :
             \* the qpairs on the group's needs_poll list
             IF W2.tqpair.needs_poll
             THEN nvme_tcp_qpair_sock_cb(W2, [type |-> "none"])
             ELSE W2))

\* ----------------------------------------------------------------- actions
\* A released request object that no accel callback, PDU or list points to:
\* nothing reads its fields before nvme_tcp_req_get and the allocation of the
\* request write them again.
Dead(W, r) ==
    /\ W.tcp_reqs[r].state = "FREE"
    /\ W.nvme_reqs[r].st = "FREE"
    /\ W.accel[r] = {}
    /\ W.tqpair.recv_pdu.req # r
    /\ ~InSeq(W.tqpair.outstanding_reqs, r)
    /\ \A i \in 1..Len(W.tqpair.send_queue) : W.tqpair.send_queue[i].req # r

\* Dead objects are kept in one form.
Canonical(W) ==
    [W EXCEPT !.tcp_reqs = [r \in Reqs |-> IF Dead(W, r) THEN ResetReq(@[r]) ELSE @[r]],
              !.nvme_reqs = [r \in Reqs |-> IF Dead(W, r)
                                             THEN [@[r] EXCEPT !.kind = "none"]
                                             ELSE @[r]]]

\* A step that met undefined behaviour ends with the process either going on
\* with the state computed or dead.
Finish(W) ==
    \E V \in {W} :
        \E dies \in (IF V.hist.ub THEN BOOLEAN ELSE {FALSE}) :
            Apply([Canonical(V) EXCEPT !.hist.ub = FALSE, !.hist.crashed = dies])

Env(accel_ok, iobuf_ok, digest_ok) ==
    [World EXCEPT !.env.accel_ok = accel_ok, !.env.iobuf_ok = iobuf_ok,
                  !.env.digest_ok = digest_ok]

\* nvme_qpair_submit_request of the generic layer around the transport's
\* submit: 0 accepts the request, -EAGAIN queues it, any other error gives the
\* request object back without a completion.
SubmitVia(W, r) ==
    With(With(nvme_tcp_qpair_submit_request(W, r),
              LAMBDA V : [V EXCEPT !.hist.submit.ret = V.rc,
                                  !.hist.submit.req = r]), LAMBDA W1 :
        IF W1.rc = "OK"
        THEN [W1 EXCEPT !.hist.pending[r] = TRUE,
                        !.nvme_reqs[r].st = IF @ = "COMPLETED" THEN @ ELSE "SUBMITTED",
                        !.qpair.outstanding_zcopy_reqs =
                            IF W.nvme_reqs[r].kind = "zread" THEN @ + 1 ELSE @]
        ELSE IF W1.rc = "EAGAIN"
        THEN \* the transport has read nothing of the request: what it asks for
             \* is looked at again when it is submitted again
             [W1 EXCEPT !.nvme_reqs[r].st = "QUEUED", !.nvme_reqs[r].kind = "none"]
        ELSE nvme_free_request(W1, r))

\* Translating the data of a capsule to memory keys can fail where there is a
\* memory map and the capsule carries data.
MkeyInputs(kind) ==
    IF tqpair.mem_map /\ kind \in {"contig", "mdwrite"} THEN BOOLEAN ELSE {TRUE}

\* The request object the generic layer takes from the free list.
nvme_allocate_request ==
    LET usable == IF tqpair.flags.use_poll_group_req_pool THEN Reqs ELSE 1..NumEntries
        free == {r \in usable : nvme_reqs[r].st = "FREE"}
    IN  IF free = {} THEN NULL ELSE Min(free)

Submit(kind, iobuf_ok, sgl_ok, accel_ok) ==
    /\ ~hist.crashed
    /\ qpair.state = "CONNECTED"
    /\ nvme_allocate_request # NULL
    /\ hist.submits < MaxSubmits
    /\ \E mkey_ok \in MkeyInputs(IF kind = "contig" THEN kind ELSE "none") :
       LET W == Env(accel_ok, iobuf_ok, TRUE)
           r == nvme_allocate_request
       IN  Finish(SubmitVia([W EXCEPT !.hist.submits = @ + 1,
                                      !.env.sgl_ok = sgl_ok,
                                      !.env.mkey_ok = mkey_ok,
                                      !.nvme_reqs[r].st = "ALLOCATED",
                                      !.nvme_reqs[r].kind = kind], r))

Resubmit(r, kind, iobuf_ok, sgl_ok, accel_ok) ==
    /\ ~hist.crashed
    /\ qpair.state = "CONNECTED"
    /\ nvme_reqs[r].st = "QUEUED"
    /\ \E mkey_ok \in MkeyInputs(IF kind = "contig" THEN kind ELSE "none") :
       LET W == Env(accel_ok, iobuf_ok, TRUE)
       IN  Finish(SubmitVia([W EXCEPT !.env.sgl_ok = sgl_ok,
                                      !.env.mkey_ok = mkey_ok,
                                      !.nvme_reqs[r].kind = kind], r))

IobufGetCb(r, accel_ok) ==
    /\ ~hist.crashed
    /\ "iobuf_wait" \in accel[r]
    /\ Finish(nvme_tcp_iobuf_get_cb(Env(accel_ok, TRUE, TRUE), r))

AccelKinds == {"in_capsule", "md_copy", "c2h_crc", "crc32"}

AccelDone(r, k, status) ==
    /\ ~hist.crashed
    /\ k \in accel[r]
    /\ \E mkey_ok \in MkeyInputs(IF k = "in_capsule" THEN "mdwrite" ELSE "none") :
       LET W == [World EXCEPT !.env.mkey_ok = mkey_ok]
       IN  Finish(CASE k = "in_capsule" ->
                         _nvme_tcp_accel_finished_in_capsule(W, r, status)
                    [] k = "md_copy" ->
                         nvme_tcp_req_accel_seq_complete_cb(W, r, status)
                    [] k = "c2h_crc" ->
                         nvme_tcp_req_accel_seq_complete_crc_c2h_cb(W, r, status)
                    [] k = "crc32" ->
                         tcp_data_recv_crc32_done(W, r, status))

Disconnect ==
    /\ ~hist.crashed
    /\ qpair.state = "CONNECTED"
    /\ Finish(nvme_transport_ctrlr_disconnect_qpair(World))

FreeRequest(r) ==
    /\ ~hist.crashed
    /\ nvme_reqs[r].st = "COMPLETED"
    /\ Finish(nvme_tcp_qpair_free_request(World, r))

\* The qpair's socket is in the group's sock group while the qpair is
\* connected.
InSockGroup == qpair.state = "CONNECTED" /\ tqpair.sock

CanReadHeader == InSockGroup /\ tqpair.recv_state \in {"AWAIT_PDU_READY", "AWAIT_PDU_CH"}

GroupPoll(ev, accel_ok, digest_ok) ==
    /\ ~hist.crashed
    /\ Finish(nvme_tcp_poll_group_process_completions(Env(accel_ok, TRUE, digest_ok), ev))

PollIdle == GroupPoll([type |-> "none"], TRUE, TRUE)

PollSendAck(err, accel_ok) ==
    /\ InSockGroup
    /\ \E i \in 1..Len(tqpair.send_queue) : tqpair.send_queue[i].sent
    /\ GroupPoll([type |-> "ack", err |-> err], accel_ok, TRUE)

PollCapsuleResp(cid, sc, accel_ok) ==
    /\ CanReadHeader
    /\ GroupPoll([type |-> "capsule_resp", cid |-> cid, sc |-> sc], accel_ok, TRUE)

\* The target sends data only in answer to a command that reads: the CID of a
\* C2H_DATA PDU is that of no request or of a request that takes data.
PollC2HDataHdr(cid, flags, datao, datal) ==
    /\ CanReadHeader
    /\ LET r == get_nvme_active_req_by_cid(World, cid)
       IN  IF r = NULL THEN TRUE ELSE nvme_reqs[r].kind # "mdwrite"
    /\ GroupPoll([type |-> "c2h_data", cid |-> cid, flags |-> flags,
                  datao |-> datao, datal |-> datal], TRUE, TRUE)

PollPayload(n, accel_ok, digest_ok) ==
    /\ InSockGroup
    /\ tqpair.recv_state = "AWAIT_PDU_PAYLOAD"
    /\ tqpair.recv_pdu.data_len > 0
    /\ n <= tqpair.recv_pdu.data_len - tqpair.recv_pdu.rw_offset
    /\ GroupPoll([type |-> "payload", n |-> n], accel_ok, digest_ok)

PollC2HTermReq ==
    /\ CanReadHeader
    /\ GroupPoll([type |-> "c2h_term_req"], TRUE, TRUE)

PollBadPdu ==
    /\ CanReadHeader
    /\ GroupPoll([type |-> "bad_pdu"], TRUE, TRUE)

PollSockError ==
    /\ InSockGroup
    /\ \/ tqpair.recv_state \in {"AWAIT_PDU_READY", "AWAIT_PDU_CH"}
       \/ tqpair.recv_state = "AWAIT_PDU_PAYLOAD" /\ tqpair.recv_pdu.data_len > 0
    /\ GroupPoll([type |-> "error"], TRUE, TRUE)

\* Whether a buffer or an accel task can be had is an input only where the
\* request asks for one.
AccelInputs(kind) == IF kind = "mdwrite" THEN BOOLEAN ELSE {TRUE}

\* A payload without opts is a contiguous buffer or a scatter-gather list the
\* transport walks with next_sge_fn; walking a list can fail.
SglInputs(kind) == IF kind = "contig" THEN BOOLEAN ELSE {TRUE}

\* spdk_accel_append_* and spdk_nvme_request_get_zcopy_iovs succeed.
AccelOutcomes == {TRUE}

C2HFlags == {{}, {"LAST_PDU"}, {"LAST_PDU", "SUCCESS"}, {"SUCCESS"}}

Next ==
    \/ \E kind \in Kinds :
           \E iobuf_ok \in AccelInputs(kind), sgl_ok \in SglInputs(kind),
              accel_ok \in AccelOutcomes :
               Submit(kind, iobuf_ok, sgl_ok, accel_ok)
    \/ \E r \in Reqs, kind \in Kinds :
           \E iobuf_ok \in AccelInputs(kind), sgl_ok \in SglInputs(kind),
              accel_ok \in AccelOutcomes :
               Resubmit(r, kind, iobuf_ok, sgl_ok, accel_ok)
    \/ \E r \in Reqs, accel_ok \in AccelOutcomes : IobufGetCb(r, accel_ok)
    \/ \E r \in Reqs, k \in AccelKinds, status \in {0, 1} : AccelDone(r, k, status)
    \/ Disconnect
    \/ \E r \in Reqs : FreeRequest(r)
    \/ PollIdle
    \/ \E err \in BOOLEAN, accel_ok \in AccelOutcomes : PollSendAck(err, accel_ok)
    \/ \E cid \in 0..NumEntries, sc \in {SC_SUCCESS, SC_TARGET_ERROR},
          accel_ok \in AccelOutcomes : PollCapsuleResp(cid, sc, accel_ok)
    \/ \E cid \in 0..NumEntries, flags \in C2HFlags,
          datao \in 0..PayloadSize, datal \in 0..(PayloadSize + 1) :
           PollC2HDataHdr(cid, flags, datao, datal)
    \/ \E n \in 1..PayloadSize, accel_ok \in AccelOutcomes, digest_ok \in BOOLEAN :
           PollPayload(n, accel_ok, digest_ok)
    \/ PollC2HTermReq
    \/ PollBadPdu
    \/ PollSockError

Spec == Init /\ [][Next]_vars

\* The same qpair on a socket with a protection domain.
MkeySpec == MkeyInit /\ [][Next]_vars

\* The application keeps polling the group, the socket acknowledges what is
\* on the send queue, and the accel framework and the iobuf pool deliver every
\* callback they owe (each callback that fires is one fewer in flight, so
\* none waits for ever behind the others), and the application gives back the
\* zero-copy requests completed to it. Nothing is assumed of the target or of
\* further submits by the application.
Callback ==
    \/ \E r \in Reqs, k \in AccelKinds, status \in {0, 1} : AccelDone(r, k, status)
    \/ \E r \in Reqs, accel_ok \in AccelOutcomes : IobufGetCb(r, accel_ok)

Fairness ==
    /\ WF_vars(PollIdle)
    /\ WF_vars(\E accel_ok \in AccelOutcomes : PollSendAck(FALSE, accel_ok))
    /\ WF_vars(Callback)
    /\ WF_vars(\E r \in Reqs : FreeRequest(r))

FairSpec == Init /\ [][Next]_vars /\ Fairness

\* spdk_accel_append_copy or spdk_accel_append_crc32c turns away the sequence
\* of a write whose data goes into the capsule.
SubmitAccelErr ==
    /\ nvme_allocate_request # NULL
    /\ Submit("mdwrite", TRUE, TRUE, FALSE)

AccelErrNext ==
    \/ Next
    \/ SubmitAccelErr

\* The transport with an accelerator whose append calls can fail.
AccelErrSpec == Init /\ [][AccelErrNext]_vars


\* =================================================== xlio socket: sending
\* The zero-copy sendmsg calls a socket has made, and had acknowledged, when
\* the model takes it up: none, or so many that sendmsg_idx is about to wrap.
SockStartCalls == {0} \cup {UINT32_MAX - k : k \in 0..MaxCallsBeforeWrap}

\* A send request: len bytes in all, with memory keys (data sent from a memory
\* domain) or without. internal.offset counts the bytes sent while the request
\* is queued and holds the sendmsg index once it is pending. sent_by lists the
\* zero-copy sendmsg calls that carried bytes of the request, by the number the
\* socket's error queue reports for each: its zero-based ordinal among the
\* zero-copy calls of the socket, a 32-bit counter (zc_calls).
\*
\* A uint32_t is held as the int32_t with the same bits: UINT32_MAX is -1,
\* adding 1 to it gives 0, and x <= y on uint32_t is U32Le(x, y).
U32Le(x, y) == IF (x < 0) = (y < 0) THEN x <= y ELSE y < 0

spdk_sock_request_queue(S, len, mkeys) ==
    [S EXCEPT !.submitted = @ + 1,
              !.queued_reqs = Append(@, [id |-> S.submitted + 1, len |-> len,
                                         mkeys |-> mkeys, offset |-> 0,
                                         is_zcopy |-> FALSE, sent_by |-> <<>>])]

\* The request at the head of the queued list goes to the tail of the pending
\* list.
spdk_sock_request_pend(S) ==
    [S EXCEPT !.queued_reqs = Tail(@),
              !.pending_reqs = Append(@, Head(S.queued_reqs))]

\* The callback of a request runs: kept are its id and the zero-copy sendmsg
\* calls that carried bytes of it.
sock_request_cb(S, req) ==
    [S EXCEPT !.completed = Append(@, req.id),
              !.done_sent_by = Append(@, req.sent_by)]

\* The request leaves the pending list and its callback runs.
spdk_sock_request_put(S, id) ==
    sock_request_cb([S EXCEPT !.pending_reqs = SelectSeq(@, LAMBDA q : q.id # id)],
                    CHOOSE q \in {S.pending_reqs[i] : i \in 1..Len(S.pending_reqs)} :
                        q.id = id)

\* The bytes one sendmsg is given: what is left of the queued requests from
\* the head on, as far as they agree with the first on having memory keys.
RECURSIVE xlio_sock_prep_reqs(_, _)
xlio_sock_prep_reqs(reqs, first_req_mkey) ==
    IF reqs = <<>> THEN 0
    ELSE IF Head(reqs).mkeys # first_req_mkey THEN 0
    ELSE (Head(reqs).len - Head(reqs).offset)
             + xlio_sock_prep_reqs(Tail(reqs), first_req_mkey)

\* The head of the queued list had bytes in the sendmsg call just made.
sock_flush_sent_by(S, is_zcopy) ==
    IF is_zcopy THEN [S EXCEPT !.queued_reqs[1].sent_by = Append(@, S.zc_calls - 1)]
    ELSE S

\* "Consume the requests that were actually written": rc bytes were sent.
RECURSIVE sock_flush_consume(_, _, _)
sock_flush_consume(S0, rc, is_zcopy) ==
    IF S0.queued_reqs = <<>> THEN S0
    ELSE With(sock_flush_sent_by(S0, is_zcopy), LAMBDA S :
         With(Head(S.queued_reqs), LAMBDA req :
         IF req.len - req.offset > rc
         THEN \* this request was partially sent
              [S EXCEPT !.queued_reqs[1].is_zcopy = is_zcopy,
                        !.queued_reqs[1].offset = @ + rc]
         ELSE With(spdk_sock_request_pend(
                       [S EXCEPT !.queued_reqs[1].is_zcopy = is_zcopy,
                                 !.queued_reqs[1].offset = req.len]),
                   LAMBDA S1 :
              With(IF ~is_zcopy /\ Head(S1.pending_reqs).id = req.id
                   THEN spdk_sock_request_put(S1, req.id)
                   ELSE \* sendmsg_idx - 1; before the first zero-copy send that
                        \* is UINT32_MAX
                        [S1 EXCEPT !.pending_reqs[Len(S1.pending_reqs)].offset =
                                       S1.sendmsg_idx - 1],
                   LAMBDA S2 :
                       IF rc = req.len - req.offset THEN S2
                       ELSE sock_flush_consume(S2, rc - (req.len - req.offset),
                                               is_zcopy)))))

\* sent is what sendmsg returns: the bytes it took, or 0 for EAGAIN.
_sock_flush_ext(S, sent) ==
    IF S.queued_reqs = <<>> THEN S
    ELSE With(xlio_sock_prep_reqs(S.queued_reqs, Head(S.queued_reqs).mkeys),
              LAMBDA total :
         With(S.zcopy /\ (Head(S.queued_reqs).mkeys \/ total >= ZerocopyThreshold),
              LAMBDA is_zcopy :
             IF sent = 0 \/ sent > total THEN S
             ELSE sock_flush_consume(
                      [S EXCEPT !.sendmsg_idx = IF ~is_zcopy THEN @
                                                ELSE IF @ = UINT32_MAX THEN 1
                                                ELSE @ + 1,
                                !.zc_calls = IF is_zcopy THEN @ + 1 ELSE @],
                      sent, is_zcopy)))

\* One pass of TAILQ_FOREACH_SAFE over the pending list for the sendmsg index
\* idx: kept are the requests passed over, todo those not yet looked at.
RECURSIVE sock_check_zcopy_idx(_, _, _, _, _)
sock_check_zcopy_idx(S, idx, kept, todo, found) ==
    IF todo = <<>> THEN [S EXCEPT !.pending_reqs = kept]
    ELSE With(Head(todo), LAMBDA req :
         IF ~req.is_zcopy
         THEN \* "It was just waiting in line to complete"
              sock_check_zcopy_idx(sock_request_cb(S, req),
                                   idx, kept, Tail(todo), found)
         ELSE IF req.offset = idx
         THEN sock_check_zcopy_idx(sock_request_cb(S, req),
                                   idx, kept, Tail(todo), TRUE)
         ELSE IF found
         THEN [S EXCEPT !.pending_reqs = kept \o todo]
         ELSE sock_check_zcopy_idx(S, idx, Append(kept, req), Tail(todo), found))

\* The error queue holds one notification, for the sendmsg calls lo..hi:
\* for (idx = serr->ee_info; idx <= serr->ee_data; idx++). With ee_data =
\* UINT32_MAX idx <= ee_data is true of every uint32_t and the loop does not
\* end.
RECURSIVE _sock_check_zcopy(_, _, _)
_sock_check_zcopy(S, lo, hi) ==
    IF ~U32Le(lo, hi) THEN S
    ELSE With(sock_check_zcopy_idx(S, lo, <<>>, S.pending_reqs, FALSE), LAMBDA S1 :
             IF lo = UINT32_MAX THEN [S1 EXCEPT !.hung = TRUE]
             ELSE _sock_check_zcopy(S1, lo + 1, hi))

SockTxInit ==
    /\ QpairIdle
    /\ \E z \in BOOLEAN, n \in SockStartCalls :
           /\ ~z => n = 0
           /\ sock = [SockIdle EXCEPT !.zcopy = z, !.sendmsg_idx = n,
                                      !.zc_calls = n, !.acked = n]
    /\ packets = PacketsIdle /\ g_rdma_utils_mr_maps = MemMapsIdle /\ conn = ConnIdle /\ r2t_req = R2tIdle
    /\ recv_hdr = HdrIdle /\ send_hdr = SendHdrIdle /\ tgroup = TgroupIdle
    /\ pgroup = PgroupIdle /\ xgroup = XgroupIdle /\ vsock = VsockIdle /\ rqpair = RqpairIdle

SockTxStep(S) ==
    /\ ~sock.hung
    /\ sock' = S
    /\ UNCHANGED <<tqpair, qpair, tcp_reqs, nvme_reqs, accel, hist,
                   packets, g_rdma_utils_mr_maps, conn, r2t_req,
                   recv_hdr, send_hdr, tgroup, pgroup, xgroup, vsock,
                   rqpair>>

\* xlio_sock_writev_async: the request is queued; a flush follows at once only
\* with IOV_BATCH_SIZE iovecs queued.
SockWritevAsync(len, mkeys) ==
    /\ sock.submitted < MaxSockReqs
    /\ (mkeys => sock.zcopy)
    /\ \E sent \in 0..(MaxSockReqs * MaxSockLen) :
           \E S \in {spdk_sock_request_queue(sock, len, mkeys)} :
               IF Len(S.queued_reqs) >= IOV_BATCH_SIZE
               THEN SockTxStep(_sock_flush_ext(S, sent))
               ELSE sent = 0 /\ SockTxStep(S)

\* The group's poll flushes the sockets with queued requests.
SockFlush(sent) ==
    /\ sock.queued_reqs # <<>>
    /\ sent <= xlio_sock_prep_reqs(sock.queued_reqs, Head(sock.queued_reqs).mkeys)
    /\ SockTxStep(_sock_flush_ext(sock, sent))

\* EPOLLERR: the kernel notifies, in order, that the zero-copy sendmsg calls
\* up to hi are done with their buffers.
SockCheckZcopy(hi) ==
    /\ sock.zcopy
    /\ U32Le(sock.acked, hi)
    /\ sock.acked <= hi /\ hi < sock.zc_calls
    /\ SockTxStep([_sock_check_zcopy(sock, sock.acked, hi) EXCEPT !.acked = hi + 1])

SockTxNext ==
    \/ \E len \in 1..MaxSockLen, mkeys \in BOOLEAN : SockWritevAsync(len, mkeys)
    \/ \E sent \in 0..(MaxSockReqs * MaxSockLen) : SockFlush(sent)
    \/ \E hi \in (UINT32_MAX - MaxCallsBeforeWrap)..(MaxSockReqs * MaxSockLen) :
           SockCheckZcopy(hi)

SockTxSpec == SockTxInit /\ [][SockTxNext]_vars

\* ------------------------------------------- xlio socket, receive side
\* struct xlio_buff_t of a packet, by packet and position; NoBuf is NULL.
NoBuf == [pkt |-> 0, idx |-> 0]

\* packet->xlio_packet.buff_lst
buff_lst(p) == [pkt |-> p, idx |-> 1]

\* xlio_buf->next
xlio_buf_next(K, b) ==
    IF b.idx < Len(K.pkts[b.pkt].bufs) THEN [pkt |-> b.pkt, idx |-> b.idx + 1]
    ELSE NoBuf

\* xlio_buf->payload, xlio_buf->len
xlio_buf_payload(K, b) == K.pkts[b.pkt].bufs[b.idx]

\* The buffers of a packet that carries the payload bytes first..., cut as
\* lens says.
RECURSIVE PacketBufs(_, _)
PacketBufs(lens, first) ==
    IF lens = <<>> THEN <<>>
    ELSE <<[i \in 1..Head(lens) |-> first + i - 1]>>
             \o PacketBufs(Tail(lens), first + Head(lens))

RECURSIVE SeqSum(_)
SeqSum(s) == IF s = <<>> THEN 0 ELSE Head(s) + SeqSum(Tail(s))

\* The packet goes back to xlio and to the pool of free packets.
xlio_sock_free_packet(K, p) == [K EXCEPT !.pkts[p].returned = @ + 1]

\* --packet->refs == 0 frees the packet.
packet_unref(K, p) ==
    With([K EXCEPT !.pkts[p].refs = @ - 1], LAMBDA K1 :
        IF K1.pkts[p].refs = 0 THEN xlio_sock_free_packet(K1, p) ELSE K1)

RECURSIVE packets_advance(_, _)
packets_advance(K, len) ==
    IF len = 0 THEN K
    ELSE With(Len(xlio_buf_payload(K, K.cur_xlio_buf)) - K.cur_offset,
              LAMBDA remaining_buf_len :
         IF len < remaining_buf_len
         THEN [K EXCEPT !.cur_offset = @ + len]
         ELSE With(xlio_buf_next(K, K.cur_xlio_buf), LAMBDA next :
              IF next # NoBuf
              THEN packets_advance([K EXCEPT !.cur_offset = 0,
                                             !.cur_xlio_buf = next],
                                   len - remaining_buf_len)
              ELSE \* next packet: the head of the list is removed
                   With(packet_unref([K EXCEPT !.received_packets = Tail(@)],
                                     Head(K.received_packets)),
                        LAMBDA K1 :
                       packets_advance(
                           [K1 EXCEPT !.cur_offset = 0,
                                      !.cur_xlio_buf =
                                          IF K1.received_packets = <<>> THEN NoBuf
                                          ELSE buff_lst(Head(K1.received_packets))],
                           len - remaining_buf_len))))

\* The while loop of packets_next_chunk; cur_packet is the pos-th packet of
\* the received list.  The result is the socket, the length and payload of
\* the chunk, *packet and the packet the payload lies in.
RECURSIVE packets_next_chunk_loop(_, _, _)
packets_next_chunk_loop(K, pos, max_len) ==
    IF pos > Len(K.received_packets)
    THEN [K |-> K, len |-> 0, data |-> <<>>, packet |-> 0, owner |-> 0]
    ELSE With(Len(xlio_buf_payload(K, K.cur_xlio_buf)) - K.cur_offset,
              LAMBDA len :
         IF len = 0
         THEN \* zero length buffer: skip to the next
              With(xlio_buf_next(K, K.cur_xlio_buf), LAMBDA next :
                  IF next # NoBuf
                  THEN packets_next_chunk_loop(
                           [K EXCEPT !.cur_offset = 0, !.cur_xlio_buf = next],
                           pos, max_len)
                  ELSE \* cur_packet = STAILQ_NEXT(cur_packet, link)
                       packets_next_chunk_loop(
                           [K EXCEPT !.cur_offset = 0,
                                     !.cur_xlio_buf =
                                         IF pos + 1 > Len(K.received_packets)
                                         THEN NoBuf
                                         ELSE buff_lst(K.received_packets[pos + 1])],
                           pos + 1, max_len))
         ELSE With(IF len < max_len THEN len ELSE max_len, LAMBDA n :
                  [K |-> K, len |-> n,
                   data |-> SubSeq(xlio_buf_payload(K, K.cur_xlio_buf),
                                   K.cur_offset + 1, K.cur_offset + n),
                   packet |-> K.received_packets[pos],
                   owner |-> K.cur_xlio_buf.pkt]))

packets_next_chunk(K, max_len) ==
    packets_next_chunk_loop(
        IF K.cur_xlio_buf = NoBuf /\ K.received_packets # <<>>
        THEN [K EXCEPT !.cur_xlio_buf = buff_lst(Head(K.received_packets))]
        ELSE K,
        1, max_len)

\* The call returns ret for a request of len bytes; its buffers, if any, are
\* now with the caller.
recv_done(K, len, ret, chain) ==
    [K EXCEPT !.calls = @ + 1, !.len = len, !.ret = ret,
              !.bufs = IF chain = <<>> THEN @ ELSE Append(@, chain)]

\* The while loop of xlio_sock_recv_zcopy; avail is how many buffers
\* g_xlio_buffers_pool still has.
RECURSIVE xlio_sock_recv_zcopy_loop(_, _, _, _, _)
xlio_sock_recv_zcopy_loop(K, len, avail, chain, ret) ==
    IF len = 0 THEN [K |-> K, ret |-> ret, chain |-> chain]
    ELSE With(packets_next_chunk(K, len), LAMBDA c :
         IF c.len = 0 THEN [K |-> c.K, ret |-> ret, chain |-> chain]
         ELSE IF avail = 0
         THEN [K |-> c.K, ret |-> IF ret = 0 THEN -1 ELSE ret, chain |-> chain]
         ELSE xlio_sock_recv_zcopy_loop(
                  packets_advance(
                      [c.K EXCEPT !.pkts[c.packet].refs = @ + 1,
                                  !.delivered = @ \o c.data],
                      c.len),
                  len - c.len, avail - 1,
                  Append(chain, [packet |-> c.packet, owner |-> c.owner,
                                 data |-> c.data]),
                  ret + c.len))

\* The socket is in a group: with nothing received the call returns -1, EAGAIN.
xlio_sock_recv_zcopy(K, len, avail) ==
    IF K.received_packets = <<>> THEN recv_done(K, len, -1, <<>>)
    ELSE With(xlio_sock_recv_zcopy_loop(K, len, avail, <<>>, 0), LAMBDA r :
             recv_done(r.K, len, r.ret, r.chain))

\* The while loop of readv_wrapper over iovs, offset bytes into the first.
RECURSIVE readv_wrapper_loop(_, _, _, _)
readv_wrapper_loop(K, iovs, offset, ret) ==
    IF iovs = <<>> THEN [K |-> K, ret |-> ret]
    ELSE With(packets_next_chunk(K, Head(iovs) - offset), LAMBDA c :
         IF c.len = 0 THEN [K |-> c.K, ret |-> ret]
         ELSE With(packets_advance([c.K EXCEPT !.delivered = @ \o c.data], c.len),
                   LAMBDA K1 :
                  IF offset + c.len = Head(iovs)
                  THEN readv_wrapper_loop(K1, Tail(iovs), 0, ret + c.len)
                  ELSE readv_wrapper_loop(K1, iovs, offset + c.len, ret + c.len)))

readv_wrapper(K, iovs) ==
    IF K.received_packets = <<>> THEN recv_done(K, SeqSum(iovs), -1, <<>>)
    ELSE With(readv_wrapper_loop(K, iovs, 0, 0), LAMBDA r :
             recv_done(r.K, SeqSum(iovs), r.ret, <<>>))

RECURSIVE xlio_sock_free_bufs(_, _)
xlio_sock_free_bufs(K, sock_buf) ==
    IF sock_buf = <<>> THEN K
    ELSE xlio_sock_free_bufs(packet_unref(K, Head(sock_buf).packet), Tail(sock_buf))

RECURSIVE xlio_sock_close(_)
xlio_sock_close(K) ==
    IF K.received_packets = <<>> THEN [K EXCEPT !.closed = TRUE]
    ELSE xlio_sock_close(packet_unref([K EXCEPT !.received_packets = Tail(@)],
                                      Head(K.received_packets)))

\* XLIO_SOCKETXTREME_PACKET: a packet whose buffers have the lengths lens.
xlio_sock_poll_fd(K, lens) ==
    [K EXCEPT !.pkts = Append(@, [bufs |-> PacketBufs(lens, K.arrived + 1),
                                  refs |-> 1, returned |-> 0]),
              !.received_packets = Append(@, Len(K.pkts) + 1),
              !.arrived = @ + SeqSum(lens)]

\* The buffer lengths a packet may come with, zero length buffers included.
PacketLayouts ==
    UNION {[1..n -> 0..MaxBufLen] : n \in 1..MaxPacketBufs}

\* The iovecs recv and readv are called with.
RecvIovs == UNION {[1..n -> 1..MaxRecvLen] : n \in 1..2}

SockRxInit ==
    /\ QpairIdle
    /\ sock = SockIdle /\ packets = PacketsIdle
    /\ g_rdma_utils_mr_maps = MemMapsIdle /\ conn = ConnIdle /\ r2t_req = R2tIdle
    /\ recv_hdr = HdrIdle /\ send_hdr = SendHdrIdle /\ tgroup = TgroupIdle
    /\ pgroup = PgroupIdle /\ xgroup = XgroupIdle /\ vsock = VsockIdle /\ rqpair = RqpairIdle

SockRxStep(K) ==
    /\ packets' = K
    /\ UNCHANGED <<tqpair, qpair, tcp_reqs, nvme_reqs, accel, hist,
                   sock, g_rdma_utils_mr_maps, conn, r2t_req, recv_hdr,
                   send_hdr, tgroup, pgroup, xgroup, vsock, rqpair>>

\* The group's poll finds a packet for the socket; a free struct
\* xlio_sock_packet is there to take it.
SockPoll(lens) ==
    /\ ~packets.closed
    /\ Len(packets.pkts) < MaxPackets
    /\ SockRxStep(xlio_sock_poll_fd(packets, lens))

SockRecvZcopy(len, avail) ==
    /\ ~packets.closed
    /\ packets.calls < MaxRecvs
    /\ SockRxStep(xlio_sock_recv_zcopy(packets, len, avail))

SockReadv(iovs) ==
    /\ ~packets.closed
    /\ packets.calls < MaxRecvs
    /\ SockRxStep(readv_wrapper(packets, iovs))

\* The caller gives back the buffers one receive call handed out.
SockFreeBufs(i) ==
    /\ ~packets.closed
    /\ i \in 1..Len(packets.bufs)
    /\ SockRxStep(xlio_sock_free_bufs(
                      [packets EXCEPT !.bufs = SeqRemoveAt(@, i)], packets.bufs[i]))

SockClose ==
    /\ ~packets.closed
    /\ SockRxStep(xlio_sock_close(packets))

SockRxNext ==
    \/ \E lens \in PacketLayouts : SockPoll(lens)
    \/ \E len \in 1..MaxRecvLen, avail \in 0..MaxRecvLen : SockRecvZcopy(len, avail)
    \/ \E iovs \in RecvIovs : SockReadv(iovs)
    \/ \E i \in 1..MaxRecvs : SockFreeBufs(i)
    \/ SockClose

SockRxSpec == SockRxInit /\ [][SockRxNext]_vars

\* ------------------------------------------------ rdma_utils, memory maps
Threads == 1..NumThreads
Pds == 1..2
AccessFlags == 0..1
\* What is registered at each address of a map: a key, or 0 for nothing.
MemLayouts == [1..MaxAddr -> 0..1]

\* LIST_FOREACH over g_rdma_utils_mr_maps: the first map of the pair, or NULL.
rdma_utils_find_none(G, pd, accel_flags) == NULL
rdma_utils_find(G, pd, accel_flags) ==
    With({i \in 1..Len(G.list) : /\ G.maps[G.list[i]].pd = pd
                                 /\ G.maps[G.list[i]].accel_flags = accel_flags},
         LAMBDA found : IF found = {} THEN NULL ELSE G.list[Min(found)])

\* The body of spdk_rdma_utils_create_mem_map, run by thread t with the mutex
\* held; the caller keeps the map it is returned.
spdk_rdma_utils_create_mem_map(G, t, alloc_ok, mem) ==
    With(rdma_utils_find(G, G.thread[t].pd, G.thread[t].accel_flags), LAMBDA map :
        IF map # NULL
        THEN [G EXCEPT !.maps[map].ref_count = @ + 1,
                       !.mutex = 0,
                       !.thread[t] = [pc |-> "idle", pd |-> 0, hooks |-> FALSE,
                                      accel_flags |-> 0, map |-> 0,
                                      held |-> Append(G.thread[t].held, map)]]
        ELSE IF ~alloc_ok
        THEN [G EXCEPT !.mutex = 0,
                       !.thread[t] = [pc |-> "idle", pd |-> 0, hooks |-> FALSE,
                                      accel_flags |-> 0, map |-> 0,
                                      held |-> G.thread[t].held]]
        ELSE [G EXCEPT !.maps = Append(@, [pd |-> G.thread[t].pd,
                                           accel_flags |-> G.thread[t].accel_flags,
                                           hooks |-> G.thread[t].hooks,
                                           mem |-> mem,
                                           ref_count |-> 1, destroyed |-> 0]),
                       !.list = <<Len(G.maps) + 1>> \o @,
                       !.mutex = 0,
                       !.thread[t] = [pc |-> "idle", pd |-> 0, hooks |-> FALSE,
                                      accel_flags |-> 0, map |-> 0,
                                      held |-> Append(G.thread[t].held,
                                                      Len(G.maps) + 1)]])

\* spdk_rdma_utils_free_mem_map from the decrement to the unlock.
spdk_rdma_utils_free_mem_map(G, t) ==
    With(G.thread[t].map, LAMBDA map :
        IF G.maps[map].ref_count - 1 # 0
        THEN [G EXCEPT !.maps[map].ref_count = @ - 1,
                       !.mutex = 0, !.thread[t].pc = "idle",
                       !.thread[t].map = 0]
        ELSE [G EXCEPT !.maps[map].ref_count = @ - 1,
                       !.list = SelectSeq(@, LAMBDA m : m # map),
                       !.mutex = 0, !.thread[t].pc = "destroy"])

\* The translation at addr and, in size, how far from addr on it stays the
\* same, up to the size asked about; where nothing is registered only the
\* page of addr is looked at.
spdk_mem_map_translate(mem, addr, size) ==
    [translation |-> mem[addr],
     size |-> IF mem[addr] = 0 THEN 1
              ELSE Cardinality({n \in 1..size :
                                   \A k \in 0..(n - 1) :
                                       /\ addr + k <= MaxAddr
                                       /\ mem[addr + k] = mem[addr]})]

\* ndebug tells whether the build compiles the asserts out.
spdk_rdma_utils_get_translation(map, address, length, ndebug) ==
    With(spdk_mem_map_translate(map.mem, address, length), LAMBDA x :
        IF ~map.hooks /\ x.translation = 0 THEN "EINVAL"
        ELSE IF x.size < length /\ ~ndebug THEN "abort"
        ELSE "0")

MmInit ==
    /\ QpairIdle
    /\ sock = SockIdle /\ packets = PacketsIdle
    /\ g_rdma_utils_mr_maps = MemMapsIdle /\ conn = ConnIdle /\ r2t_req = R2tIdle
    /\ recv_hdr = HdrIdle /\ send_hdr = SendHdrIdle /\ tgroup = TgroupIdle
    /\ pgroup = PgroupIdle /\ xgroup = XgroupIdle /\ vsock = VsockIdle /\ rqpair = RqpairIdle

MmStep(G) ==
    /\ g_rdma_utils_mr_maps' = G
    /\ UNCHANGED <<tqpair, qpair, tcp_reqs, nvme_reqs, accel, hist,
                   sock, packets, conn, r2t_req, recv_hdr, send_hdr,
                   tgroup, pgroup, xgroup, vsock, rqpair>>

\* pthread_mutex_lock(&g_rdma_mr_maps_mutex) in spdk_rdma_utils_create_mem_map
MmCreateLock(t, pd, hooks, accel_flags) ==
    /\ g_rdma_utils_mr_maps.thread[t].pc = "idle"
    /\ g_rdma_utils_mr_maps.mutex = 0
    /\ Len(g_rdma_utils_mr_maps.thread[t].held) < MaxHeld
    /\ Len(g_rdma_utils_mr_maps.maps) < MaxMaps
    /\ MmStep([g_rdma_utils_mr_maps EXCEPT
                   !.mutex = t, !.xlate = MemMapsIdle.xlate,
                   !.thread[t].pc = "create", !.thread[t].pd = pd,
                   !.thread[t].hooks = hooks,
                   !.thread[t].accel_flags = accel_flags])

MmCreate(t, alloc_ok, mem) ==
    /\ g_rdma_utils_mr_maps.thread[t].pc = "create"
    /\ MmStep(spdk_rdma_utils_create_mem_map(g_rdma_utils_mr_maps, t, alloc_ok, mem))

\* *_map = NULL and pthread_mutex_lock in spdk_rdma_utils_free_mem_map
MmFreeLock(t, i) ==
    /\ g_rdma_utils_mr_maps.thread[t].pc = "idle"
    /\ g_rdma_utils_mr_maps.mutex = 0
    /\ i \in 1..Len(g_rdma_utils_mr_maps.thread[t].held)
    /\ MmStep([g_rdma_utils_mr_maps EXCEPT
                   !.mutex = t, !.xlate = MemMapsIdle.xlate,
                   !.thread[t].pc = "free",
                   !.thread[t].map = g_rdma_utils_mr_maps.thread[t].held[i],
                   !.thread[t].held = SeqRemoveAt(@, i)])

MmFree(t) ==
    /\ g_rdma_utils_mr_maps.thread[t].pc = "free"
    /\ MmStep(spdk_rdma_utils_free_mem_map(g_rdma_utils_mr_maps, t))

\* spdk_mem_map_free and _rdma_free_mem_map, after the unlock
MmDestroy(t) ==
    /\ g_rdma_utils_mr_maps.thread[t].pc = "destroy"
    /\ MmStep([g_rdma_utils_mr_maps EXCEPT
                   !.maps[g_rdma_utils_mr_maps.thread[t].map].destroyed = @ + 1,
                   !.thread[t].pc = "idle", !.thread[t].map = 0])

\* A holder of a map asks for the translation of [address, address + length).
MmTranslate(t, i, address, length, ndebug) ==
    /\ g_rdma_utils_mr_maps.thread[t].pc = "idle"
    /\ i \in 1..Len(g_rdma_utils_mr_maps.thread[t].held)
    /\ \E map \in {g_rdma_utils_mr_maps.maps[g_rdma_utils_mr_maps.thread[t].held[i]]} :
           MmStep([g_rdma_utils_mr_maps EXCEPT !.xlate =
               [map |-> g_rdma_utils_mr_maps.thread[t].held[i],
                address |-> address, length |-> length,
                ret |-> spdk_rdma_utils_get_translation(map, address, length,
                                                        ndebug)]])

MmNext ==
    \/ \E t \in Threads, pd \in Pds, hooks \in BOOLEAN, accel_flags \in AccessFlags :
           MmCreateLock(t, pd, hooks, accel_flags)
    \/ \E t \in Threads, alloc_ok \in BOOLEAN, mem \in MemLayouts :
           MmCreate(t, alloc_ok, mem)
    \/ \E t \in Threads, i \in 1..MaxHeld : MmFreeLock(t, i)
    \/ \E t \in Threads : MmFree(t)
    \/ \E t \in Threads : MmDestroy(t)
    \/ \E t \in Threads, i \in 1..MaxHeld, address \in 1..MaxAddr,
          length \in 1..MaxAddr, ndebug \in BOOLEAN :
           MmTranslate(t, i, address, length, ndebug)

MmSpec == MmInit /\ [][MmNext]_vars

\* ------------------------------------------------------- qpair connection
NoPoll == [ran |-> FALSE, state |-> "none", ticks |-> 0, rc |-> "none"]

\* nvme_tcp_ctrlr_connect_qpair from "Explicitly set the state" on, with
\* nvme_tcp_qpair_icreq_send: the IC_REQ is given to the socket and the timer
\* is set.
nvme_tcp_qpair_icreq_send(Cn) ==
    [Cn EXCEPT !.state = "INVALID", !.quiesced = FALSE, !.reached = FALSE,
               !.icreq_pending = TRUE, !.term_req_pending = FALSE,
               !.icreq_timeout_tsc =
                   Cn.ticks + NVME_TCP_TIME_OUT_IN_SECONDS * TicksHz]

nvme_tcp_send_icreq_complete(Cn) ==
    [Cn EXCEPT !.icreq_pending = FALSE,
               !.icreq_send_ack = TRUE,
               !.state = IF @ = "INITIALIZING" THEN "FABRIC_CONNECT_SEND" ELSE @,
               !.reached = @ \/ Cn.state = "INITIALIZING"]

\* nvme_tcp_pdu_ch_handle and nvme_tcp_icresp_handle for an IC_RESP; a
\* rejected PDU is answered with a term req and the receive path quiesces.
nvme_tcp_icresp_handle(Cn, valid) ==
    IF Cn.quiesced THEN Cn
    ELSE IF Cn.state # "INVALID" \/ ~valid
    THEN [Cn EXCEPT !.quiesced = TRUE, !.term_req_pending = TRUE]
    ELSE IF ~Cn.icreq_send_ack THEN [Cn EXCEPT !.state = "INITIALIZING"]
    ELSE [Cn EXCEPT !.state = "FABRIC_CONNECT_SEND", !.reached = TRUE]

\* fabric_rc is what nvme_fabric_qpair_connect_async and
\* nvme_fabric_qpair_connect_poll return.
nvme_tcp_ctrlr_connect_qpair_poll_no_timer(Cn, fabric_rc) ==
    [Cn EXCEPT !.poll = [ran |-> TRUE, state |-> Cn.state, ticks |-> Cn.ticks,
                         rc |-> "EAGAIN"]]
nvme_tcp_ctrlr_connect_qpair_poll(Cn, fabric_rc) ==
    With([Cn EXCEPT !.poll = [ran |-> TRUE, state |-> Cn.state,
                              ticks |-> Cn.ticks, rc |-> "EAGAIN"]],
         LAMBDA C1 :
        IF Cn.state \in {"INVALID", "INITIALIZING"}
        THEN IF Cn.ticks > Cn.icreq_timeout_tsc
             THEN [C1 EXCEPT !.poll.rc = "ETIMEDOUT"]
             ELSE C1
        ELSE IF Cn.state = "FABRIC_CONNECT_SEND"
        THEN IF fabric_rc = "ERR" THEN [C1 EXCEPT !.poll.rc = "ERR"]
             ELSE [C1 EXCEPT !.state = "FABRIC_CONNECT_POLL"]
        ELSE IF Cn.state = "FABRIC_CONNECT_POLL"
        THEN IF fabric_rc = "0"
             THEN [C1 EXCEPT !.state = "RUNNING", !.qstate = "CONNECTED",
                             !.poll.rc = "0"]
             ELSE [C1 EXCEPT !.poll.rc = fabric_rc]
        ELSE IF Cn.state = "RUNNING" THEN [C1 EXCEPT !.poll.rc = "0"]
        ELSE [C1 EXCEPT !.poll.rc = "EINVAL"])

\* The fail label of nvme_tcp_qpair_process_completions: the disconnect
\* empties the send queue and quiesces the receive path.
process_completions_fail(Cn) ==
    [Cn EXCEPT !.transport_failure_reason = "UNKNOWN",
               !.qstate = "DISCONNECTING", !.quiesced = TRUE,
               !.icreq_pending = FALSE, !.term_req_pending = FALSE]

\* nvme_tcp_qpair_process_completions of a qpair that is connecting.  icresp:
\* whether the read finds an IC_RESP, and a valid one; read_ok: what
\* nvme_tcp_read_pdu returns.
process_completions_connecting(Cn, icresp, read_ok, fabric_rc) ==
    With(IF icresp = "none" THEN Cn
         ELSE nvme_tcp_icresp_handle(Cn, icresp = "valid"), LAMBDA C1 :
        IF ~read_ok THEN process_completions_fail(C1)
        ELSE IF C1.qstate # "CONNECTING" THEN C1
        ELSE With(nvme_tcp_ctrlr_connect_qpair_poll(C1, fabric_rc), LAMBDA C2 :
                 IF C2.poll.rc \notin {"0", "EAGAIN"}
                 THEN process_completions_fail(C2)
                 ELSE C2))

ConnInit ==
    /\ QpairIdle
    /\ sock = SockIdle /\ packets = PacketsIdle
    /\ g_rdma_utils_mr_maps = MemMapsIdle /\ conn = ConnIdle /\ r2t_req = R2tIdle
    /\ recv_hdr = HdrIdle /\ send_hdr = SendHdrIdle /\ tgroup = TgroupIdle
    /\ pgroup = PgroupIdle /\ xgroup = XgroupIdle /\ vsock = VsockIdle /\ rqpair = RqpairIdle

ConnStep(Cn) ==
    /\ conn' = Cn
    /\ UNCHANGED <<tqpair, qpair, tcp_reqs, nvme_reqs, accel, hist,
                   sock, packets, g_rdma_utils_mr_maps, r2t_req,
                   recv_hdr, send_hdr, tgroup, pgroup, xgroup, vsock,
                   rqpair>>

ConnConnect ==
    /\ conn.qstate = "DISCONNECTED"
    /\ conn.connects < MaxConnects
    /\ ConnStep(nvme_tcp_qpair_icreq_send(
                    [conn EXCEPT !.qstate = "CONNECTING", !.connects = @ + 1,
                                 !.transport_failure_reason = "NONE",
                                 !.poll = NoPoll]))

\* The socket has written the IC_REQ.
ConnSendIcreqComplete ==
    /\ conn.icreq_pending
    /\ ConnStep(nvme_tcp_send_icreq_complete([conn EXCEPT !.poll = NoPoll]))

\* The socket has written the term req.
ConnTermReqComplete ==
    /\ conn.term_req_pending
    /\ ConnStep([conn EXCEPT !.term_req_pending = FALSE, !.state = "EXITING",
                             !.poll = NoPoll])

\* spdk_get_ticks() moves on.
ConnTick ==
    /\ conn.ticks < MaxTicks
    /\ ConnStep([conn EXCEPT !.ticks = @ + 1, !.poll = NoPoll])

ConnProcessCompletions(icresp, read_ok, fabric_rc) ==
    /\ conn.qstate \in {"CONNECTING", "CONNECTED"}
    /\ ConnStep(process_completions_connecting(
                    [conn EXCEPT !.poll = NoPoll], icresp, read_ok, fabric_rc))

\* The disconnect has run to its end.
ConnDisconnectDone ==
    /\ conn.qstate = "DISCONNECTING"
    /\ ConnStep([conn EXCEPT !.qstate = "DISCONNECTED", !.poll = NoPoll])

ConnNext ==
    \/ ConnConnect
    \/ ConnSendIcreqComplete
    \/ ConnTermReqComplete
    \/ ConnTick
    \/ \E icresp \in {"none", "valid", "invalid"}, read_ok \in BOOLEAN,
          fabric_rc \in {"0", "EAGAIN", "ERR"} :
           ConnProcessCompletions(icresp, read_ok, fabric_rc)
    \/ ConnDisconnectDone

ConnSpec == ConnInit /\ [][ConnNext]_vars

\* ------------------------------------------- R2T and H2C_DATA of one request
\* One host-to-controller request whose data the target asks for with R2T
\* PDUs.  r2t_req is its struct nvme_tcp_req with what the qpair has put on
\* the send queue for it; pdus and r2ts are the history of the H2C_DATA PDUs
\* written and of the R2T PDUs handled.

\* get_nvme_active_req_by_cid finds no request once the cid was released.
r2t_req_active(R) == R.state # "FREE"

r2t_term_req(R, fes, error_offset, r2t) ==
    [R EXCEPT !.recv_state = "QUIESCING",
              !.term = [fes |-> fes, error_offset |-> error_offset],
              !.r2ts = Append(@, [r2t EXCEPT !.res = "rejected", !.fes = fes])]

\* A failed assert() ends the process in a build that compiles it.
r2t_abort(R) == [R EXCEPT !.abort = TRUE]

req_complete_safe_r2t(R) ==
    IF ~(R.send_ack /\ R.data_recv) THEN R
    ELSE IF R.state # "ACTIVE" /\ ~R.ndebug THEN r2t_abort(R)
    ELSE [R EXCEPT !.state = "FREE", !.completed = @ + 1]

nvme_tcp_send_h2c_data(R) ==
    LET datal == Min({R.r2tl_remain, MaxH2cData})
        remain == R.r2tl_remain - datal
    IN  [R EXCEPT !.send_ack = FALSE, !.h2c_send_waiting_ack = FALSE,
                  !.r2tl_remain = remain,
                  !.datao = @ + datal,
                  !.pdus = Append(@, [ttag |-> R.ttag, datao |-> R.datao,
                                      datal |-> datal, last |-> remain = 0,
                                      unacked |-> Len(R.send_queue)]),
                  !.send_queue = Append(@, "H2C_DATA")]

r2t_park(R, r2t) ==
    IF R.active_r2ts # NVME_TCP_MAX_R2T_DEFAULT + 1 /\ ~R.ndebug THEN r2t_abort(R)
    ELSE [R EXCEPT !.ttag_r2t_next = r2t.ttag,
                   !.r2tl_remain_next = r2t.r2tl,
                   !.r2t_waiting_h2c_complete = TRUE,
                   !.r2ts = Append(@, [r2t EXCEPT !.res = "parked"])]

nvme_tcp_r2t_hdr_handle(R, r2t) ==
    IF ~r2t_req_active(R)
    THEN r2t_term_req(R, "INVALID_HEADER_FIELD", "cccid", r2t)
    ELSE IF R.state = "ACTIVE" /\ R.active_r2ts # 0 /\ ~R.ndebug THEN r2t_abort(R)
    ELSE LET R1 == [R EXCEPT !.state = "ACTIVE_R2T"]
         IN  IF R1.datao # r2t.r2to
             THEN r2t_term_req(R1, "INVALID_HEADER_FIELD", "r2to", r2t)
             ELSE IF r2t.r2tl + r2t.r2to > H2cPayloadSize
             THEN r2t_term_req(R1, "DATA_TRANSFER_OUT_OF_RANGE", "r2tl", r2t)
             ELSE LET R2 == [R1 EXCEPT !.active_r2ts = @ + 1]
                  IN  IF R2.active_r2ts > NVME_TCP_MAX_R2T_DEFAULT
                      THEN IF R2.state = "ACTIVE_R2T" /\ ~R2.send_ack
                           THEN r2t_park(R2, r2t)
                           ELSE r2t_term_req(R2, "R2T_LIMIT_EXCEEDED", "none", r2t)
                      ELSE LET R3 == [R2 EXCEPT
                                         !.ttag = r2t.ttag, !.r2tl_remain = r2t.r2tl,
                                         !.r2ts = Append(@, [r2t EXCEPT !.res = "accepted"])]
                           IN  IF R3.send_ack THEN nvme_tcp_send_h2c_data(R3)
                               ELSE [R3 EXCEPT !.h2c_send_waiting_ack = TRUE]

nvme_tcp_qpair_h2c_data_send_complete(R) ==
    LET R1 == [R EXCEPT !.send_ack = TRUE]
    IN  IF R1.r2tl_remain # 0 THEN nvme_tcp_send_h2c_data(R1)
        ELSE IF R1.active_r2ts = 0 /\ ~R.ndebug THEN r2t_abort(R1)
        ELSE LET R2 == [R1 EXCEPT !.active_r2ts = @ - 1,
                                  !.state = "ACTIVE"]
             IN  IF R2.r2t_waiting_h2c_complete
                 THEN IF R2.active_r2ts = 0 /\ ~R.ndebug THEN r2t_abort(R2)
                      ELSE nvme_tcp_send_h2c_data(
                               [R2 EXCEPT !.r2t_waiting_h2c_complete = FALSE,
                                          !.ttag = R2.ttag_r2t_next,
                                          !.r2tl_remain = R2.r2tl_remain_next,
                                          !.state = "ACTIVE_R2T"])
                 ELSE req_complete_safe_r2t(R2)

cmd_send_complete_r2t(R) ==
    LET R1 == [R EXCEPT !.send_ack = TRUE]
    IN  IF R1.h2c_send_waiting_ack THEN nvme_tcp_send_h2c_data(R1)
        ELSE req_complete_safe_r2t(R1)

capsule_resp_r2t(R) ==
    IF ~r2t_req_active(R)
    THEN [R EXCEPT !.recv_state = "QUIESCING",
                   !.term = [fes |-> "INVALID_HEADER_FIELD", error_offset |-> "rccqe"]]
    ELSE req_complete_safe_r2t([R EXCEPT !.data_recv = TRUE])

R2tInit ==
    /\ QpairIdle
    /\ sock = SockIdle /\ packets = PacketsIdle
    /\ g_rdma_utils_mr_maps = MemMapsIdle /\ conn = ConnIdle /\ r2t_req = R2tIdle
    /\ recv_hdr = HdrIdle /\ send_hdr = SendHdrIdle /\ tgroup = TgroupIdle
    /\ pgroup = PgroupIdle /\ xgroup = XgroupIdle /\ vsock = VsockIdle /\ rqpair = RqpairIdle

R2tStep(R) ==
    /\ r2t_req' = R
    /\ UNCHANGED <<tqpair, qpair, tcp_reqs, nvme_reqs, accel, hist,
                   sock, packets, g_rdma_utils_mr_maps, conn, recv_hdr,
                   send_hdr, tgroup, pgroup, xgroup, vsock, rqpair>>

\* nvme_tcp_req_get and the CAPSULE_CMD write of a request without in-capsule
\* data, in a build with or without assert().
R2tSubmit(ndebug) ==
    /\ r2t_req.state = "FREE" /\ r2t_req.submits = 0
    /\ R2tStep([R2tIdle EXCEPT !.state = "ACTIVE", !.ndebug = ndebug,
                               !.submits = 1,
                               !.send_queue = <<"CAPSULE_CMD">>])

\* The socket has written the PDU at the head of the send queue.
R2tSendAck ==
    /\ ~r2t_req.abort
    /\ r2t_req.send_queue # <<>>
    /\ \E R \in {[r2t_req EXCEPT !.send_queue = Tail(@)]} :
           IF Head(r2t_req.send_queue) = "CAPSULE_CMD"
           THEN R2tStep(cmd_send_complete_r2t(R))
           ELSE R2tStep(nvme_tcp_qpair_h2c_data_send_complete(R))

\* The target sends an R2T for the request's cid.  The history notes the
\* request's datao and the unacknowledged PDUs when it came, and whether an
\* R2T was parked then and the last send unacknowledged.
R2tRecvR2t(r2to, r2tl) ==
    /\ ~r2t_req.abort
    /\ r2t_req.submits > 0
    /\ r2t_req.recv_state = "AWAIT_PDU_READY"
    /\ Len(r2t_req.r2ts) < MaxR2ts
    /\ R2tStep(nvme_tcp_r2t_hdr_handle(
                   r2t_req, [ttag |-> Len(r2t_req.r2ts) + 1, r2to |-> r2to,
                             r2tl |-> r2tl, res |-> "none", fes |-> "none",
                             datao |-> r2t_req.datao,
                             send_queue |-> r2t_req.send_queue,
                             while_parked |-> r2t_req.r2t_waiting_h2c_complete
                                              /\ ~r2t_req.send_ack]))

\* The target sends the CAPSULE_RESP of the request.
R2tRecvCapsuleResp ==
    /\ ~r2t_req.abort
    /\ r2t_req.submits > 0
    /\ r2t_req.recv_state = "AWAIT_PDU_READY"
    /\ ~r2t_req.data_recv
    /\ R2tStep(capsule_resp_r2t(r2t_req))

R2tNext ==
    \/ \E ndebug \in BOOLEAN : R2tSubmit(ndebug)
    \/ R2tSendAck
    \/ \E r2to \in 0..H2cPayloadSize, r2tl \in 1..(H2cPayloadSize + 1) :
           R2tRecvR2t(r2to, r2tl)
    \/ R2tRecvCapsuleResp

R2tSpec == R2tInit /\ [][R2tNext]_vars

\* --------------------------------------------- received PDU header, term req
\* One qpair and the header of the PDU it is receiving.  recv_hdr keeps the
\* qpair's state, the common header in tqpair->recv_pdu, the error a handler
\* detected, the H2C_TERM_REQ written to tqpair->send_pdu and the PDUs that
\* were dispatched to their handler.

QpairStates == {"INVALID", "INITIALIZING", "FABRIC_CONNECT_SEND",
                "FABRIC_CONNECT_POLL", "RUNNING", "EXITING"}
PduTypes == {"IC_RESP", "CAPSULE_RESP", "C2H_DATA", "C2H_TERM_REQ", "R2T", "OTHER"}

\* sizeof of the header structures, by PDU type.
expected_hlen(pdu_type) ==
    CASE pdu_type = "IC_RESP" -> 128
      [] pdu_type = "CAPSULE_CMD" -> 72
      [] OTHER -> 24

\* enum spdk_nvme_tcp_term_req_fes as it goes on the wire.
fes_code(fes) ==
    CASE fes = "INVALID_HEADER_FIELD" -> 1
      [] fes = "PDU_SEQUENCE_ERROR" -> 2
      [] fes = "HDGST_ERROR" -> 3
      [] fes = "DATA_TRANSFER_OUT_OF_RANGE" -> 4
      [] fes = "R2T_LIMIT_EXCEEDED" -> 5
      [] fes = "INVALID_DATA_UNSUPPORTED_PARAMETER" -> 6

g_nvme_tcp_hdgst(pdu_type) == pdu_type \in {"CAPSULE_RESP", "C2H_DATA", "R2T"}

\* The errors the handler of a PDU type can detect, with their error offset.
HandlerErrors(pdu_type) ==
    CASE pdu_type = "IC_RESP" ->
             {<<"INVALID_HEADER_FIELD", 8>>, <<"INVALID_HEADER_FIELD", 12>>,
              <<"INVALID_HEADER_FIELD", 10>>}
      [] pdu_type = "CAPSULE_RESP" -> {<<"INVALID_HEADER_FIELD", 8>>}
      [] pdu_type = "C2H_DATA" ->
             {<<"INVALID_HEADER_FIELD", 8>>, <<"INVALID_HEADER_FIELD", 0>>,
              <<"DATA_TRANSFER_OUT_OF_RANGE", 0>>, <<"INVALID_HEADER_FIELD", 12>>,
              <<"DATA_TRANSFER_OUT_OF_RANGE", 16>>}
      [] pdu_type = "C2H_TERM_REQ" -> {<<"INVALID_HEADER_FIELD", 8>>}
      [] pdu_type = "R2T" ->
             {<<"INVALID_HEADER_FIELD", 8>>, <<"INVALID_HEADER_FIELD", 12>>,
              <<"DATA_TRANSFER_OUT_OF_RANGE", 16>>, <<"R2T_LIMIT_EXCEEDED", 0>>}
      [] OTHER -> {}

\* What the handler of a dispatched PDU can find: one of its errors, or <<>>
\* for none.  nvme_tcp_c2h_data_hdr_handle looks the request up and then
\* tests the flags: SUCCESS without LAST_PDU is an invalid header field at
\* the offset of the common header.
HandlerOutcomes(pdu) ==
    IF pdu.pdu_type = "C2H_DATA"
    THEN IF pdu.success /\ ~pdu.last_pdu
         THEN {<<"INVALID_HEADER_FIELD", 8>>, <<"INVALID_HEADER_FIELD", 0>>}
         ELSE (HandlerErrors("C2H_DATA") \ {<<"INVALID_HEADER_FIELD", 0>>})
              \cup {<<>>}
    ELSE HandlerErrors(pdu.pdu_type) \cup {<<>>}

\* memset of tqpair->send_pdu, then the fields the function writes: fes is
\* not among them.
send_h2c_term_req_pdu(H, fes, error_offset) ==
    LET h2c_term_req_hdr_len == expected_hlen("H2C_TERM_REQ")
        copy_len == IF H.pdu.hlen > SPDK_NVME_TCP_TERM_REQ_ERROR_DATA_MAX_SIZE
                    THEN SPDK_NVME_TCP_TERM_REQ_ERROR_DATA_MAX_SIZE
                    ELSE H.pdu.hlen
    IN  [H EXCEPT !.recv_state = "QUIESCING",
                  !.detected = [fes |-> fes, error_offset |-> error_offset,
                                pdu |-> H.pdu, state |-> H.state,
                                seq |-> H.pdus],
                  !.send_pdu = [pdu_type |-> "H2C_TERM_REQ",
                                hlen |-> h2c_term_req_hdr_len,
                                fes |-> 0,
                                fei |-> IF fes \in {"INVALID_HEADER_FIELD",
                                                    "INVALID_DATA_UNSUPPORTED_PARAMETER"}
                                        THEN error_offset ELSE 0,
                                data_len |-> copy_len,
                                plen |-> h2c_term_req_hdr_len + copy_len]]

nvme_tcp_qpair_recv_state_valid(H) ==
    H.state \in {"FABRIC_CONNECT_SEND", "FABRIC_CONNECT_POLL", "RUNNING"}

\* nvme_tcp_pdu_calc_psh_len, as far as the header digest goes.
nvme_tcp_pdu_calc_psh_len(H) ==
    [H EXCEPT !.pdu.has_hdgst = g_nvme_tcp_hdgst(H.pdu.pdu_type)
                                /\ H.host_hdgst_enable]

nvme_tcp_pdu_ch_handle(H) ==
    LET pdu == H.pdu
        hd_len == IF pdu.hdgstf THEN SPDK_NVME_TCP_DIGEST_LEN ELSE 0
        plen_error ==
            CASE pdu.pdu_type = "IC_RESP" -> pdu.plen # expected_hlen("IC_RESP")
              [] pdu.pdu_type \in {"CAPSULE_RESP", "R2T"} ->
                     pdu.plen # expected_hlen(pdu.pdu_type) + hd_len
              [] pdu.pdu_type = "C2H_DATA" -> pdu.plen < pdu.pdo
              [] pdu.pdu_type = "C2H_TERM_REQ" ->
                     \/ pdu.plen <= expected_hlen("C2H_TERM_REQ")
                     \/ pdu.plen > SPDK_NVME_TCP_TERM_REQ_PDU_MAX_SIZE
              [] OTHER -> FALSE
    IN  IF pdu.pdu_type = "IC_RESP" /\ H.state # "INVALID"
        THEN send_h2c_term_req_pdu(H, "PDU_SEQUENCE_ERROR", 0)
        ELSE IF pdu.pdu_type # "IC_RESP" /\ ~nvme_tcp_qpair_recv_state_valid(H)
        THEN send_h2c_term_req_pdu(H, "PDU_SEQUENCE_ERROR", 0)
        ELSE IF pdu.pdu_type = "OTHER"
        THEN send_h2c_term_req_pdu(H, "INVALID_HEADER_FIELD", 0)
        ELSE IF pdu.hlen # expected_hlen(pdu.pdu_type)
        THEN send_h2c_term_req_pdu(H, "INVALID_HEADER_FIELD", 2)
        ELSE IF plen_error
        THEN send_h2c_term_req_pdu(H, "INVALID_HEADER_FIELD", 4)
        ELSE nvme_tcp_pdu_calc_psh_len([H EXCEPT !.recv_state = "AWAIT_PDU_PSH"])

\* err is what the handler of the PDU's type detects, <<>> for nothing.
nvme_tcp_pdu_psh_handle(H, digest_ok, err) ==
    IF H.pdu.has_hdgst /\ ~digest_ok
    THEN send_h2c_term_req_pdu(H, "HDGST_ERROR", 0)
    ELSE LET H1 == [H EXCEPT !.dispatched =
                                 Append(@, [pdu_type |-> H.pdu.pdu_type,
                                            state |-> H.state, seq |-> H.pdus])]
         IN  IF err # <<>> THEN send_h2c_term_req_pdu(H1, err[1], err[2])
             ELSE [H1 EXCEPT !.recv_state = "AWAIT_PDU_CH"]

HdrInit ==
    /\ QpairIdle
    /\ sock = SockIdle /\ packets = PacketsIdle
    /\ g_rdma_utils_mr_maps = MemMapsIdle /\ conn = ConnIdle /\ r2t_req = R2tIdle
    /\ send_hdr = SendHdrIdle /\ tgroup = TgroupIdle
    /\ pgroup = PgroupIdle /\ xgroup = XgroupIdle /\ vsock = VsockIdle /\ rqpair = RqpairIdle
    /\ \E state \in QpairStates, hdgst \in BOOLEAN :
           recv_hdr = [HdrIdle EXCEPT !.state = state, !.host_hdgst_enable = hdgst]

HdrStep(H) ==
    /\ recv_hdr' = H
    /\ UNCHANGED <<tqpair, qpair, tcp_reqs, nvme_reqs, accel, hist,
                   sock, packets, g_rdma_utils_mr_maps, conn, r2t_req,
                   send_hdr, tgroup, pgroup, xgroup, vsock, rqpair>>

\* The eight bytes of a common header have been read.  The LAST_PDU and
\* SUCCESS bits are followed for C2H_DATA, the one type whose handler reads
\* them.
HdrRecvCh(pdu_type, hlen, plen, pdo, hdgstf, last_pdu, success) ==
    /\ recv_hdr.recv_state = "AWAIT_PDU_CH"
    /\ recv_hdr.pdus < MaxHdrPdus
    /\ pdu_type # "C2H_DATA" => ~last_pdu /\ ~success
    /\ HdrStep(nvme_tcp_pdu_ch_handle(
                   [recv_hdr EXCEPT !.pdus = @ + 1,
                                    !.pdu = [pdu_type |-> pdu_type, hlen |-> hlen,
                                             plen |-> plen, pdo |-> pdo,
                                             hdgstf |-> hdgstf,
                                             last_pdu |-> last_pdu,
                                             success |-> success,
                                             has_hdgst |-> FALSE]]))

\* The rest of the header has been read.
HdrRecvPsh(digest_ok, err) ==
    /\ recv_hdr.recv_state = "AWAIT_PDU_PSH"
    /\ err \in HandlerOutcomes(recv_hdr.pdu)
    /\ HdrStep(nvme_tcp_pdu_psh_handle(recv_hdr, digest_ok, err))

HdrErrs == UNION {HandlerErrors(t) : t \in PduTypes} \cup {<<>>}

HdrNext ==
    \/ \E pdu_type \in PduTypes, hlen \in {24, 128, 200}, plen \in {24, 28, 128, 177},
          pdo \in {24, 32}, hdgstf \in BOOLEAN, last_pdu \in BOOLEAN,
          success \in BOOLEAN :
           HdrRecvCh(pdu_type, hlen, plen, pdo, hdgstf, last_pdu, success)
    \/ \E digest_ok \in BOOLEAN, err \in HdrErrs : HdrRecvPsh(digest_ok, err)

HdrSpec == HdrInit /\ [][HdrNext]_vars

\* --------------------------------------------- pdo and plen of a sent PDU
\* send_hdr is a qpair after the IC_RESP (cpda and the digest flags are set)
\* with the header of the last CAPSULE_CMD or H2C_DATA PDU it built.

\* The header that nvme_tcp_qpair_capsule_cmd_send builds.
capsule_cmd_hdr(S, payload_size, in_capsule_data) ==
    LET hlen == expected_hlen("CAPSULE_CMD")
        plen0 == hlen + (IF S.host_hdgst_enable THEN SPDK_NVME_TCP_DIGEST_LEN ELSE 0)
        alignment == (S.cpda + 1) * 4
        pad == S.cpda # 0 /\ alignment > plen0
        pdo == IF pad THEN alignment ELSE plen0
    IN  IF payload_size = 0 \/ ~in_capsule_data
        THEN [S EXCEPT !.pdu = [pdu_type |-> "CAPSULE_CMD", hlen |-> hlen, pdo |-> 0,
                                padding_len |-> 0, plen |-> plen0,
                                hdgstf |-> S.host_hdgst_enable, ddgstf |-> FALSE,
                                data_len |-> 0]]
        ELSE [S EXCEPT !.pdu = [pdu_type |-> "CAPSULE_CMD", hlen |-> hlen, pdo |-> pdo,
                                padding_len |-> IF pad THEN alignment - plen0 ELSE 0,
                                plen |-> pdo + payload_size +
                                         (IF S.host_ddgst_enable
                                          THEN SPDK_NVME_TCP_DIGEST_LEN ELSE 0),
                                hdgstf |-> S.host_hdgst_enable,
                                ddgstf |-> S.host_ddgst_enable,
                                data_len |-> payload_size]]

\* The header that nvme_tcp_send_h2c_data builds for datal bytes.
h2c_data_hdr(S, datal) ==
    LET hlen == expected_hlen("H2C_DATA")
        plen0 == hlen + (IF S.host_hdgst_enable THEN SPDK_NVME_TCP_DIGEST_LEN ELSE 0)
        alignment == (S.cpda + 1) * 4
        pad == S.cpda # 0 /\ alignment > plen0
        pdo == IF pad THEN alignment ELSE plen0
    IN  [S EXCEPT !.pdu = [pdu_type |-> "H2C_DATA", hlen |-> hlen, pdo |-> pdo,
                           padding_len |-> IF pad THEN alignment - plen0 ELSE 0,
                           plen |-> pdo + datal +
                                    (IF S.host_ddgst_enable
                                     THEN SPDK_NVME_TCP_DIGEST_LEN ELSE 0),
                           hdgstf |-> S.host_hdgst_enable,
                           ddgstf |-> S.host_ddgst_enable,
                           data_len |-> datal]]

\* A qpair whose IC_RESP set cpda and the digests.
SendHdrInit ==
    /\ QpairIdle
    /\ sock = SockIdle /\ packets = PacketsIdle
    /\ g_rdma_utils_mr_maps = MemMapsIdle /\ conn = ConnIdle /\ r2t_req = R2tIdle
    /\ recv_hdr = HdrIdle /\ tgroup = TgroupIdle
    /\ pgroup = PgroupIdle /\ xgroup = XgroupIdle /\ vsock = VsockIdle /\ rqpair = RqpairIdle
    /\ \E cpda \in 0..MaxCpda, hdgst \in BOOLEAN, ddgst \in BOOLEAN :
           send_hdr = [SendHdrIdle EXCEPT !.cpda = cpda,
                                          !.host_hdgst_enable = hdgst,
                                          !.host_ddgst_enable = ddgst]

SendHdrStep(S) ==
    /\ send_hdr' = S
    /\ UNCHANGED <<tqpair, qpair, tcp_reqs, nvme_reqs, accel, hist,
                   sock, packets, g_rdma_utils_mr_maps, conn, r2t_req,
                   recv_hdr, tgroup, pgroup, xgroup, vsock, rqpair>>

SendHdrCapsuleCmd(payload_size, in_capsule_data) ==
    /\ payload_size <= MaxDataLen
    /\ SendHdrStep(capsule_cmd_hdr(send_hdr, payload_size, in_capsule_data))

SendHdrH2cData(datal) ==
    /\ datal <= MaxDataLen
    /\ SendHdrStep(h2c_data_hdr(send_hdr, datal))

SendHdrNext ==
    \/ \E payload_size \in 0..MaxDataLen, in_capsule_data \in BOOLEAN :
           SendHdrCapsuleCmd(payload_size, in_capsule_data)
    \/ \E datal \in 1..MaxDataLen : SendHdrH2cData(datal)

SendHdrSpec == SendHdrInit /\ [][SendHdrNext]_vars

\* ------------------------------------------- nvme_tcp_read_pdu, byte by byte
\* Two qpairs of one poll group and the bytes their sockets deliver.  Qpair 1
\* is connected and submits commands, qpair 2 is connecting and waits for its
\* IC_RESP.  tgroup.recv_pdus is poll_group_requests: 0 leaves each qpair its
\* own receive PDU, otherwise the group has that many requests and that many
\* receive PDUs for all its qpairs.  stream is what the target has sent to a
\* qpair, delivered the bytes of it the socket has been given so far, sock
\* the bytes in the socket that were not read yet.
RxQpairs == {1, 2}
RxPduTypes == {"IC_RESP", "CAPSULE_RESP", "C2H_DATA"}

\* The longest PDU of a stream is the IC_RESP.
MaxRxPduLen == expected_hlen("IC_RESP")

RxHdrLen(Q, pdu_type) ==
    expected_hlen(pdu_type) +
    (IF g_nvme_tcp_hdgst(pdu_type) /\ Q.host_hdgst_enable
     THEN SPDK_NVME_TCP_DIGEST_LEN ELSE 0)

\* Every C2H_DATA PDU of the stream carries RxDataLen bytes with
\* LAST_PDU | SUCCESS.
RxPayloadLen(Q, pdu_type) ==
    IF pdu_type # "C2H_DATA" THEN 0
    ELSE RxDataLen + (IF Q.host_ddgst_enable THEN SPDK_NVME_TCP_DIGEST_LEN ELSE 0)

RxPduLen(Q, pdu_type) == RxHdrLen(Q, pdu_type) + RxPayloadLen(Q, pdu_type)

RECURSIVE RxStreamEnd(_, _)
RxStreamEnd(Q, k) ==
    IF k = 0 THEN 0 ELSE RxStreamEnd(Q, k - 1) + RxPduLen(Q, Q.stream[k])

\* The PDUs of the stream that lie wholly within its first n bytes.
RECURSIVE RxPdusWithin(_, _, _)
RxPdusWithin(Q, k, n) ==
    IF k > Len(Q.stream) \/ RxStreamEnd(Q, k) > n THEN k - 1
    ELSE RxPdusWithin(Q, k + 1, n)

\* nvme_tcp_read_data: what the socket has, up to len bytes.
nvme_tcp_read_data(Q, len) == Min({len, Q.sock})

\* nvme_tcp_recv_pdu_get; rc bytes of the common header were read into the
\* caller's local common_hdr and are copied into the PDU it gets.
nvme_tcp_recv_pdu_get(G, q, rc) ==
    IF G.recv_pdus # 0 /\ G.free_pdus = 0
    THEN [G EXCEPT !.q[q].recv_state = "QUIESCING"]
    ELSE [G EXCEPT !.free_pdus = IF G.recv_pdus # 0 THEN @ - 1 ELSE @,
                   !.q[q].recv_pdu = [RxNoPdu EXCEPT !.held = TRUE,
                                                     !.ch_valid_bytes = rc]]

\* nvme_tcp_qpair_set_recv_state with nvme_tcp_recv_pdu_put.
rx_set_recv_state(G, q, state) ==
    IF G.q[q].recv_state = state THEN G
    ELSE IF state \in {"AWAIT_PDU_READY", "ERROR"} /\ G.q[q].recv_pdu.held
            /\ G.recv_pdus # 0
    THEN [G EXCEPT !.q[q].recv_state = state,
                   !.free_pdus = @ + 1,
                   !.q[q].recv_pdu = RxNoPdu]
    ELSE [G EXCEPT !.q[q].recv_state = state]

\* The request of the qpair completes: nvme_tcp_req_complete_safe with both
\* bits set, the request object goes back to its pool.
rx_req_complete(G, q) ==
    [G EXCEPT !.q[q].outstanding = @ - 1,
              !.q[q].completed = @ + 1,
              !.free_req = IF G.recv_pdus # 0 THEN @ + 1 ELSE @]

\* nvme_tcp_pdu_ch_handle for a well-formed header of the stream.
rx_ch_handle(G, q, pdu_type) ==
    LET Q == G.q[q]
    IN  IF \/ pdu_type = "IC_RESP" /\ Q.state # "INVALID"
           \/ pdu_type # "IC_RESP"
              /\ Q.state \notin {"FABRIC_CONNECT_SEND", "FABRIC_CONNECT_POLL",
                                 "RUNNING"}
        THEN rx_set_recv_state(G, q, "QUIESCING")
        ELSE [G EXCEPT !.q[q].recv_state = "AWAIT_PDU_PSH",
                       !.q[q].recv_pdu.pdu_type = pdu_type,
                       !.q[q].recv_pdu.psh_len =
                           RxHdrLen(Q, pdu_type) - COMMON_PDU_HDR_LEN]

\* nvme_tcp_pdu_psh_handle with the handler of each type, for a PDU that
\* passes its checks.
rx_psh_handle(G, q) ==
    LET pdu_type == G.q[q].recv_pdu.pdu_type
        G1 == [G EXCEPT !.q[q].dispatched = Append(@, pdu_type)]
    IN  CASE pdu_type = "IC_RESP" ->
                 rx_set_recv_state(
                     [G1 EXCEPT !.q[q].state = IF G.q[q].icreq_send_ack
                                               THEN "FABRIC_CONNECT_SEND"
                                               ELSE "INITIALIZING"],
                     q, "AWAIT_PDU_READY")
          [] pdu_type = "CAPSULE_RESP" ->
                 rx_req_complete(rx_set_recv_state(G1, q, "AWAIT_PDU_READY"), q)
          [] OTHER ->
                 [G1 EXCEPT !.q[q].recv_state = "AWAIT_PDU_PAYLOAD",
                            !.q[q].recv_pdu.data_len = RxDataLen]

\* nvme_tcp_pdu_payload_handle of a C2H_DATA PDU with LAST_PDU | SUCCESS.
rx_payload_handle(G, q) ==
    rx_set_recv_state(rx_req_complete(G, q), q, "AWAIT_PDU_READY")

\* The loop of nvme_tcp_read_pdu on qpair q; reaped counts the completions
\* of this call.  The result is the state when the function returns.
RECURSIVE read_pdu_loop(_, _, _)
read_pdu_loop(G, q, reaped) ==
    LET Q == G.q[q]
        pdu == Q.recv_pdu
        next(G1) == read_pdu_loop(G1, q, reaped + G1.q[q].completed - Q.completed)
    IN  IF reaped >= RxNumEntries THEN G
        ELSE CASE Q.recv_state = "AWAIT_PDU_READY" ->
                 next(rx_set_recv_state(
                          IF pdu.held
                          THEN [G EXCEPT !.q[q].recv_pdu.ch_valid_bytes = 0,
                                         !.q[q].recv_pdu.psh_valid_bytes = 0,
                                         !.q[q].recv_pdu.rw_offset = 0]
                          ELSE G, q, "AWAIT_PDU_CH"))
          [] Q.recv_state = "AWAIT_PDU_CH" ->
                 LET rc == nvme_tcp_read_data(
                               Q, COMMON_PDU_HDR_LEN - pdu.ch_valid_bytes)
                     G1 == IF ~pdu.held
                           THEN nvme_tcp_recv_pdu_get(
                                    [G EXCEPT !.q[q].sock = @ - rc], q, rc)
                           ELSE [G EXCEPT !.q[q].sock = @ - rc,
                                          !.q[q].recv_pdu.ch_valid_bytes = @ + rc]
                 IN  IF ~pdu.held /\ rc = 0 THEN G
                     ELSE IF G1.q[q].recv_state = "QUIESCING" THEN next(G1)
                     ELSE IF G1.q[q].recv_pdu.ch_valid_bytes < COMMON_PDU_HDR_LEN
                     THEN G1
                     ELSE next(rx_ch_handle(G1, q,
                                            Q.stream[Len(Q.dispatched) + 1]))
          [] Q.recv_state = "AWAIT_PDU_PSH" ->
                 LET rc == nvme_tcp_read_data(Q, pdu.psh_len - pdu.psh_valid_bytes)
                     G1 == [G EXCEPT !.q[q].sock = @ - rc,
                                     !.q[q].recv_pdu.psh_valid_bytes = @ + rc]
                 IN  IF G1.q[q].recv_pdu.psh_valid_bytes < pdu.psh_len THEN G1
                     ELSE next(rx_psh_handle(G1, q))
          [] Q.recv_state = "AWAIT_PDU_PAYLOAD" ->
                 LET data_len == pdu.data_len +
                                 (IF pdu.pdu_type = "C2H_DATA" /\ Q.host_ddgst_enable
                                  THEN SPDK_NVME_TCP_DIGEST_LEN ELSE 0)
                     rc == nvme_tcp_read_data(Q, data_len - pdu.rw_offset)
                     G1 == [G EXCEPT !.q[q].sock = @ - rc,
                                     !.q[q].recv_pdu.rw_offset = @ + rc]
                 IN  IF pdu.data_len = 0 THEN G
                     ELSE IF G1.q[q].recv_pdu.rw_offset < data_len THEN G1
                     ELSE next(rx_payload_handle(G1, q))
          [] Q.recv_state = "QUIESCING" ->
                 IF Q.outstanding = 0
                 THEN next(rx_set_recv_state(G, q, "ERROR"))
                 ELSE G
          [] OTHER -> G   \* NVME_TCP_PDU_RECV_STATE_ERROR: NVME_TCP_PDU_FATAL

\* The poll group with qpair 1 connected, qpair 2 waiting for its IC_RESP
\* after its IC_REQ was written; qpair 1 negotiated both digests or none.
RxInit ==
    /\ QpairIdle
    /\ sock = SockIdle /\ packets = PacketsIdle
    /\ g_rdma_utils_mr_maps = MemMapsIdle /\ conn = ConnIdle /\ r2t_req = R2tIdle
    /\ recv_hdr = HdrIdle /\ send_hdr = SendHdrIdle
    /\ pgroup = PgroupIdle /\ xgroup = XgroupIdle /\ vsock = VsockIdle /\ rqpair = RqpairIdle
    /\ \E recv_pdus \in 0..MaxPoolRequests, dgst \in BOOLEAN :
           tgroup = [recv_pdus |-> recv_pdus, free_pdus |-> recv_pdus,
                     free_req |-> recv_pdus,
                     q |-> [q \in RxQpairs |->
                               IF q = 1
                               THEN [RxQpairIdle EXCEPT !.state = "RUNNING",
                                                        !.host_hdgst_enable = dgst,
                                                        !.host_ddgst_enable = dgst]
                               ELSE RxQpairIdle]]

RxStep(G) ==
    /\ tgroup' = G
    /\ UNCHANGED <<tqpair, qpair, tcp_reqs, nvme_reqs, accel, hist,
                   sock, packets, g_rdma_utils_mr_maps, conn, r2t_req,
                   recv_hdr, send_hdr, pgroup, xgroup, vsock, rqpair>>

\* nvme_tcp_req_get and the command capsule: one request at a time.
RxSubmit(q) ==
    /\ tgroup.q[q].state = "RUNNING"
    /\ tgroup.q[q].recv_state \notin {"QUIESCING", "ERROR"}
    /\ tgroup.q[q].outstanding = 0
    /\ tgroup.q[q].submits < MaxRxSubmits
    /\ tgroup.recv_pdus # 0 => tgroup.free_req > 0
    /\ RxStep([tgroup EXCEPT !.q[q].outstanding = 1,
                             !.q[q].submits = @ + 1,
                             !.free_req = IF tgroup.recv_pdus # 0 THEN @ - 1 ELSE @])

\* The target answers: the IC_REQ with an IC_RESP, a command with a
\* CAPSULE_RESP or with its data and LAST_PDU | SUCCESS.
RxTargetSend(q, pdu_type) ==
    /\ IF pdu_type = "IC_RESP"
       THEN tgroup.q[q].state = "INVALID" /\ tgroup.q[q].stream = <<>>
       ELSE /\ tgroup.q[q].state = "RUNNING"
            /\ tgroup.q[q].outstanding = 1
            /\ Len(tgroup.q[q].stream) < tgroup.q[q].submits
    /\ RxStep([tgroup EXCEPT !.q[q].stream = Append(@, pdu_type)])

\* The socket is given n more bytes of the stream and the poll group calls
\* nvme_tcp_qpair_process_completions, which reads with nvme_tcp_read_pdu.
\* A qpair whose receive path has stopped is not followed further.
RxPoll(q, n) ==
    /\ tgroup.q[q].recv_state \notin {"QUIESCING", "ERROR"}
    /\ LET Q == tgroup.q[q]
           left == RxStreamEnd(Q, Len(Q.stream)) - Q.delivered
           offset == Q.delivered -
                     RxStreamEnd(Q, RxPdusWithin(Q, 1, Q.delivered))
       IN  /\ n <= left
           /\ (n <= MaxChunk /\ offset < MaxSplitOffset) \/ n = left
    /\ RxStep(read_pdu_loop([tgroup EXCEPT !.q[q].delivered = @ + n,
                                           !.q[q].sock = @ + n], q, 0))

RxNext ==
    \/ \E q \in RxQpairs : RxSubmit(q)
    \/ \E q \in RxQpairs, pdu_type \in RxPduTypes : RxTargetSend(q, pdu_type)
    \/ \E q \in RxQpairs, n \in 0..MaxRxPduLen : RxPoll(q, n)

RxSpec == RxInit /\ [][RxNext]_vars

\* ------------------------------------------ the poll group's needs_poll list
\* TAILQ_INSERT_TAIL(&pgroup->needs_poll, tqpair, link).
np_insert(G, q) ==
    [G EXCEPT !.needs_poll = Append(@, q),
              !.q[q].needs_poll = TRUE,
              !.readded = @ \cup {q}]

\* if (tqpair->needs_poll) { TAILQ_REMOVE(&group->needs_poll, tqpair, link);
\* tqpair->needs_poll = false; }. Removing a qpair that is not linked
\* corrupts the list.
np_remove(G, q) ==
    IF ~G.q[q].needs_poll THEN G
    ELSE IF ~InSeq(G.needs_poll, q) THEN [G EXCEPT !.crashed = TRUE]
    ELSE [G EXCEPT !.needs_poll =
                       SeqRemoveAt(@, CHOOSE i \in 1..Len(@) :
                                          @[i] = q /\ \A j \in 1..(i - 1) : @[j] # q),
                   !.q[q].needs_poll = FALSE]

\* _pdu_write_done up to the removal of the PDU from the send queue.
np_write_done_head(G, q) ==
    With(IF G.q[q].poll_group /\ ~G.q[q].needs_poll
            /\ (G.q[q].queued_req > 0
                \/ G.q[q].state \in {"FABRIC_CONNECT_POLL", "INITIALIZING"})
         THEN np_insert(G, q) ELSE G,
         LAMBDA G1 : [G1 EXCEPT !.q[q].send_queue = @ - 1])

\* spdk_sock_abort_requests: every PDU the socket still holds gets its
\* callback with an error; the qpair is DISCONNECTING by now, so the
\* disconnect each callback asks for returns at once.
RECURSIVE np_abort_requests(_, _)
np_abort_requests(G, q) ==
    IF G.q[q].send_queue = 0 THEN G
    ELSE np_abort_requests(np_write_done_head(G, q), q)

\* nvme_tcp_poll_group_disconnect_qpair with the socket group's remove_sock.
np_poll_group_disconnect_qpair(G, q) ==
    np_abort_requests(np_remove(G, q), q)

\* nvme_tcp_ctrlr_disconnect_qpair: the needs_poll link, the send queue.
np_ctrlr_disconnect_qpair(G, q) ==
    [np_remove(G, q) EXCEPT !.q[q].send_queue = 0]

\* Generic layer: nvme_transport_ctrlr_disconnect_qpair.
np_transport_disconnect_qpair(G, q) ==
    IF G.q[q].qstate \in {"DISCONNECTING", "DISCONNECTED"} THEN G
    ELSE With([G EXCEPT !.q[q].qstate = "DISCONNECTING"], LAMBDA G1 :
         With(IF G1.q[q].poll_group
              THEN np_poll_group_disconnect_qpair(G1, q) ELSE G1, LAMBDA G2 :
             [np_ctrlr_disconnect_qpair(G2, q) EXCEPT !.gone = @ \cup {q}]))

np_pdu_write_done(G, q, err) ==
    With(np_write_done_head(G, q), LAMBDA G1 :
        IF err THEN np_transport_disconnect_qpair(G1, q) ELSE G1)

\* The connection and the queued requests move on when the qpair is polled.
np_progress(G, q) ==
    IF G.q[q].qstate # "CONNECTED" THEN G
    ELSE IF G.q[q].state = "INITIALIZING"
    THEN [G EXCEPT !.q[q].state = "FABRIC_CONNECT_POLL"]
    ELSE IF G.q[q].state = "FABRIC_CONNECT_POLL"
    THEN [G EXCEPT !.q[q].state = "RUNNING"]
    ELSE IF G.q[q].queued_req > 0 /\ G.q[q].send_queue < MaxNpWrites
    THEN [G EXCEPT !.q[q].queued_req = @ - 1, !.q[q].send_queue = @ + 1]
    ELSE G

\* nvme_tcp_qpair_sock_cb without taking the qpair off the list.
np_sock_cb_keeps_link(G, q, in) ==
    With([G EXCEPT !.polled = Append(@, q)], LAMBDA G1 :
    With(IF in.progress THEN np_progress(G1, q) ELSE G1, LAMBDA G2 :
    With(IF in.wrote /\ G2.q[q].send_queue > 0
         THEN np_pdu_write_done(G2, q, FALSE) ELSE G2, LAMBDA G3 :
        IF in.fail THEN np_transport_disconnect_qpair(G3, q) ELSE G3)))

\* nvme_tcp_qpair_sock_cb. in.progress: the poll moves the connection on or
\* resubmits a queued request; in.wrote: a PDU is written out meanwhile;
\* in.fail: process_completions fails and disconnects the qpair.
np_sock_cb(G, q, in) ==
    With(np_remove([G EXCEPT !.polled = Append(@, q)], q), LAMBDA G1 :
    With(IF in.progress THEN np_progress(G1, q) ELSE G1, LAMBDA G2 :
    With(IF in.wrote /\ G2.q[q].send_queue > 0
         THEN np_pdu_write_done(G2, q, FALSE) ELSE G2, LAMBDA G3 :
        IF in.fail THEN np_transport_disconnect_qpair(G3, q) ELSE G3)))

\* spdk_sock_group_poll: the callback of every socket with an event.
RECURSIVE np_sock_group_poll(_, _, _)
np_sock_group_poll(G, events, in) ==
    IF events = {} THEN G
    ELSE With(Min(events), LAMBDA q :
             np_sock_group_poll(np_sock_cb(G, q, in[q]), events \ {q}, in))

\* The disconnected qpairs of the group: one with nothing outstanding is done.
np_disconnected_qpairs(G) ==
    [G EXCEPT !.q = [q \in DOMAIN @ |->
        IF @[q].poll_group /\ @[q].qstate = "DISCONNECTING" /\ @[q].accel = 0
        THEN [@[q] EXCEPT !.qstate = "DISCONNECTED", !.state = "INVALID"]
        ELSE @[q]]]

\* TAILQ_NEXT(cur, link), NULL at the tail.
np_next(G, cur) ==
    With(CHOOSE i \in 1..Len(G.needs_poll) : G.needs_poll[i] = cur, LAMBDA i :
        IF i < Len(G.needs_poll) THEN G.needs_poll[i + 1] ELSE NULL)

\* TAILQ_FOREACH_SAFE(tqpair, &group->needs_poll, link, tmp_tqpair): the
\* successor is read before the callback; following the link of a qpair that
\* is not on the list leaves the list.
RECURSIVE np_needs_poll_pass(_, _, _)
np_needs_poll_pass(G, cur, in) ==
    IF cur = NULL THEN G
    ELSE IF ~InSeq(G.needs_poll, cur) THEN [G EXCEPT !.crashed = TRUE]
    ELSE With(np_next(G, cur), LAMBDA tmp :
             np_needs_poll_pass(np_sock_cb(G, cur, in[cur]), tmp, in))

np_poll_group_process_completions(G, events, in) ==
    With(np_disconnected_qpairs(np_sock_group_poll(G, events, in)), LAMBDA G1 :
    With([G1 EXCEPT !.start = {G1.needs_poll[i] : i \in 1..Len(G1.needs_poll)},
                    !.polled = <<>>, !.readded = {}], LAMBDA G2 :
        [np_needs_poll_pass(G2, IF G2.needs_poll = <<>> THEN NULL
                                ELSE Head(G2.needs_poll), in)
            EXCEPT !.op = "process_completions"]))

\* nvme_tcp_poll_group_remove, and the generic layer forgetting the group.
np_poll_group_remove(G, q) ==
    [np_remove(G, q) EXCEPT !.q[q].poll_group = FALSE, !.gone = @ \cup {q}]

NpInputs == [progress : BOOLEAN, wrote : BOOLEAN, fail : BOOLEAN]

\* The input of a qpair that is not polled.
NpNoInput == [progress |-> FALSE, wrote |-> FALSE, fail |-> FALSE]

\* What the last step recorded is forgotten when the next one starts.
NpStart ==
    [pgroup EXCEPT !.op = "none", !.start = {}, !.polled = <<>>,
                   !.readded = {}, !.gone = {}]

NpInit ==
    /\ QpairIdle
    /\ sock = SockIdle /\ packets = PacketsIdle
    /\ g_rdma_utils_mr_maps = MemMapsIdle /\ conn = ConnIdle /\ r2t_req = R2tIdle
    /\ recv_hdr = HdrIdle /\ send_hdr = SendHdrIdle /\ tgroup = TgroupIdle
    /\ pgroup = PgroupIdle /\ xgroup = XgroupIdle /\ vsock = VsockIdle /\ rqpair = RqpairIdle

NpStep(G) ==
    /\ ~pgroup.crashed
    /\ pgroup' = G
    /\ UNCHANGED <<tqpair, qpair, tcp_reqs, nvme_reqs, accel, hist,
                   sock, packets, g_rdma_utils_mr_maps, conn, r2t_req,
                   recv_hdr, send_hdr, tgroup, xgroup, vsock, rqpair>>

\* nvme_tcp_poll_group_add of a disconnected qpair.
NpPollGroupAdd(q) ==
    /\ ~pgroup.q[q].poll_group
    /\ pgroup.q[q].qstate = "DISCONNECTED"
    /\ NpStep([NpStart EXCEPT !.q[q].poll_group = TRUE])

\* The qpair connects: the ICReq goes to the socket.
NpConnect(q) ==
    /\ pgroup.q[q].qstate = "DISCONNECTED"
    /\ NpStep([NpStart EXCEPT !.q[q].qstate = "CONNECTED",
                              !.q[q].state = "INITIALIZING",
                              !.q[q].send_queue = 1])

\* A request is submitted: its capsule goes to the socket, or it starts an
\* accel operation, or it is queued for lack of resources.
NpSubmit(q, kind) ==
    /\ pgroup.q[q].qstate = "CONNECTED"
    /\ pgroup.q[q].state = "RUNNING"
    /\ \/ /\ kind = "write"
          /\ pgroup.q[q].send_queue < MaxNpWrites
          /\ NpStep([NpStart EXCEPT !.q[q].send_queue = @ + 1])
       \/ /\ kind = "accel"
          /\ pgroup.q[q].accel < MaxNpAccel
          /\ NpStep([NpStart EXCEPT !.q[q].accel = @ + 1])
       \/ /\ kind = "queued"
          /\ pgroup.q[q].queued_req < MaxNpQueued
          /\ NpStep([NpStart EXCEPT !.q[q].queued_req = @ + 1])

\* The socket finishes a write outside a poll of the group.
NpWriteDone(q, err) ==
    /\ pgroup.q[q].send_queue > 0
    /\ NpStep(np_pdu_write_done(NpStart, q, err))

\* tcp_data_recv_crc32_done.
NpCrc32Done(q) ==
    /\ pgroup.q[q].accel > 0
    /\ NpStep(With([NpStart EXCEPT !.q[q].accel = @ - 1], LAMBDA G :
           IF G.q[q].poll_group /\ ~G.q[q].needs_poll
           THEN np_insert(G, q) ELSE G))

\* nvme_tcp_req_accel_seq_complete_crc_c2h_cb, and the tail of
\* nvme_tcp_qpair_free_request.
NpAccelSeqComplete(q) ==
    /\ pgroup.q[q].accel > 0
    /\ NpStep(With([NpStart EXCEPT !.q[q].accel = @ - 1], LAMBDA G :
           IF G.q[q].poll_group /\ G.q[q].queued_req > 0 /\ ~G.q[q].needs_poll
           THEN np_insert(G, q) ELSE G))

NpDisconnect(q) ==
    /\ pgroup.q[q].qstate = "CONNECTED"
    /\ NpStep([np_transport_disconnect_qpair(NpStart, q) EXCEPT !.op = "disconnect"])

\* A qpair outside a poll group finishes its disconnect when it is polled.
NpDisconnectDone(q) ==
    /\ ~pgroup.q[q].poll_group
    /\ pgroup.q[q].qstate = "DISCONNECTING"
    /\ pgroup.q[q].accel = 0
    /\ NpStep([NpStart EXCEPT !.q[q].qstate = "DISCONNECTED",
                              !.q[q].state = "INVALID"])

NpPollGroupRemove(q) ==
    /\ pgroup.q[q].poll_group
    /\ pgroup.q[q].qstate \in {"DISCONNECTING", "DISCONNECTED"}
    /\ NpStep([np_poll_group_remove(NpStart, q) EXCEPT !.op = "remove"])

NpProcessCompletions(events, in) ==
    /\ \A q \in events : pgroup.q[q].poll_group /\ pgroup.q[q].qstate = "CONNECTED"
    /\ \A q \in NpQpairs :
           (q \notin events /\ ~pgroup.q[q].needs_poll) => in[q] = NpNoInput
    /\ NpStep(np_poll_group_process_completions(NpStart, events, in))

NpNext ==
    \/ \E q \in NpQpairs : NpPollGroupAdd(q)
    \/ \E q \in NpQpairs : NpConnect(q)
    \/ \E q \in NpQpairs, kind \in {"write", "accel", "queued"} : NpSubmit(q, kind)
    \/ \E q \in NpQpairs, err \in BOOLEAN : NpWriteDone(q, err)
    \/ \E q \in NpQpairs : NpCrc32Done(q)
    \/ \E q \in NpQpairs : NpAccelSeqComplete(q)
    \/ \E q \in NpQpairs : NpDisconnect(q)
    \/ \E q \in NpQpairs : NpDisconnectDone(q)
    \/ \E q \in NpQpairs : NpPollGroupRemove(q)
    \/ \E events \in SUBSET NpQpairs, in \in [NpQpairs -> NpInputs] :
           NpProcessCompletions(events, in)

NpSpec == NpInit /\ [][NpNext]_vars

\* -------------------------------------------- xlio socket group: its lists
\* TAILQ_REMOVE of a socket from a pending list.
xg_unlink(l, s) == SelectSeq(l, LAMBDA x : x # s)

xg_pending_recv_insert(G, s) ==
    [G EXCEPT !.s[s].pending_recv = TRUE, !.pending_recv = Append(@, s)]

\* calloc of a ring entry.
xg_ring_alloc(G, s) ==
    [G EXCEPT !.rings = Append(@, [fd |-> G.s[s].fd, refs |-> 1, freed |-> FALSE]),
              !.s[s].ring_fd = Len(G.rings) + 1]

\* The entries on the group's ring list for the ring of socket s.
xg_ring_find(G, s) ==
    SelectSeq(G.ring_fd, LAMBDA r : G.rings[r].fd = G.s[s].fd)

\* xlio_sock_group_impl_add_sock, and the callback the generic layer sets.
xlio_sock_group_impl_add_sock(G, s) ==
    With([G EXCEPT !.s[s].group_impl = TRUE, !.s[s].cb_fn = TRUE], LAMBDA G0 :
        IF xg_ring_find(G0, s) # <<>>
        THEN With(Head(xg_ring_find(G0, s)), LAMBDA r :
                 [G0 EXCEPT !.s[s].ring_fd = r, !.rings[r].refs = @ + 1])
        ELSE With(IF G0.s[s].ring_fd = NULL THEN xg_ring_alloc(G0, s) ELSE G0,
                  LAMBDA G1 :
                 [G1 EXCEPT !.rings[G1.s[s].ring_fd].refs = 1,
                            !.ring_fd = Append(@, G1.s[s].ring_fd)]))

\* spdk_sock_abort_requests: the queued and the pending requests complete
\* with an error.
xg_abort_requests(G, s) ==
    [G EXCEPT !.s[s].queued_reqs = <<>>, !.s[s].pending_reqs = 0]

\* xlio_sock_group_impl_remove_sock, and the generic layer clearing the
\* socket's group and callback.
xlio_sock_group_impl_remove_sock(G, s) ==
    With(xg_abort_requests(G, s), LAMBDA G0 :
    With([G0 EXCEPT !.pending_send = IF G0.s[s].pending_send THEN xg_unlink(@, s) ELSE @,
                    !.pending_recv = IF G0.s[s].pending_recv THEN xg_unlink(@, s) ELSE @,
                    !.s[s].pending_send = FALSE,
                    !.s[s].pending_recv = FALSE], LAMBDA G1 :
    With(G1.s[s].ring_fd, LAMBDA r :
        [G1 EXCEPT !.rings[r].refs = @ - 1,
                   !.rings[r].freed = (G1.rings[r].refs = 1),
                   !.ring_fd = IF G1.rings[r].refs = 1
                               THEN SelectSeq(@, LAMBDA x : x # r) ELSE @,
                   !.s[s].ring_fd = NULL,
                   !.s[s].group_impl = FALSE,
                   !.s[s].cb_fn = FALSE])))

\* The callback of a request that completes: the application may answer the
\* completion by taking the socket out of its group.
xg_request_cb(G, s, cb_removes) ==
    IF cb_removes /\ G.s[s].group_impl
    THEN xlio_sock_group_impl_remove_sock(G, s) ELSE G

\* The iovecs queued on the socket.
RECURSIVE xg_iovcnt(_)
xg_iovcnt(reqs) == IF reqs = <<>> THEN 0 ELSE Head(reqs) + xg_iovcnt(Tail(reqs))

\* _sock_flush_ext by its outcome. "none": nothing queued, or sendmsg took
\* nothing (EAGAIN); "copy": the queued requests were written by a copying
\* sendmsg and complete unless a request is pending before them; "zcopy":
\* they were written by a zero-copy sendmsg and wait for its
\* acknowledgement; "error": sendmsg failed. The result is <<state, rc>>.
xg_flush(G, s, out, cb_removes) ==
    IF G.s[s].queued_reqs = <<>> \/ out = "none" THEN <<G, 0>>
    ELSE IF out = "error" THEN <<G, -1>>
    ELSE IF out = "zcopy" \/ G.s[s].pending_reqs > 0
    THEN <<[G EXCEPT !.s[s].pending_reqs = @ + Len(G.s[s].queued_reqs),
                     !.s[s].queued_reqs = <<>>], 0>>
    ELSE <<xg_request_cb([G EXCEPT !.s[s].queued_reqs = <<>>], s, cb_removes), 0>>

\* xlio_sock_writev_async of a request with iovcnt iovecs.
xlio_sock_writev_async(G, s, iovcnt, out, cb_removes) ==
    With([G EXCEPT !.s[s].queued_reqs = Append(@, iovcnt)], LAMBDA G0 :
        IF xg_iovcnt(G0.s[s].queued_reqs) >= IOV_BATCH_SIZE
        THEN With(xg_flush(G0, s, out, cb_removes), LAMBDA f :
                 IF f[2] = 0
                 THEN IF f[1].s[s].queued_reqs = <<>> /\ f[1].s[s].pending_send
                         /\ f[1].s[s].group_impl
                      THEN [f[1] EXCEPT !.pending_send = xg_unlink(@, s),
                                        !.s[s].pending_send = FALSE]
                      ELSE f[1]
                 ELSE xg_request_cb(xg_abort_requests(f[1], s), s, cb_removes))
        ELSE IF ~G0.s[s].pending_send /\ G0.s[s].group_impl
        THEN [G0 EXCEPT !.pending_send = Append(@, s), !.s[s].pending_send = TRUE]
        ELSE G0)

\* TAILQ_FOREACH_SAFE over pending_send in xlio_sock_group_impl_poll: todo
\* are the sockets that were on the list when the pass began, in order.
RECURSIVE xg_poll_send(_, _, _)
xg_poll_send(G, todo, in) ==
    IF todo = <<>> THEN G
    ELSE With(Head(todo), LAMBDA s :
         With(xg_flush(G, s, in[s].out, in[s].cb_removes), LAMBDA f :
             xg_poll_send(
                 IF f[2] = 0
                 THEN IF f[1].s[s].queued_reqs = <<>>
                      THEN [f[1] EXCEPT !.pending_send = xg_unlink(@, s),
                                        !.s[s].pending_send = FALSE]
                      ELSE f[1]
                 ELSE xg_request_cb(xg_abort_requests(f[1], s), s, in[s].cb_removes),
                 Tail(todo), in)))

\* _sock_check_zcopy for a notification that covers the pending requests of
\* the socket: group is read from sock->group_impl when the function starts.
xg_check_zcopy(G, s, cb_removes) ==
    With(G.s[s].group_impl, LAMBDA group :
        IF G.s[s].pending_reqs = 0 THEN G
        ELSE With(xg_request_cb([G EXCEPT !.s[s].pending_reqs = 0], s, cb_removes),
                  LAMBDA G1 :
                 IF ~G1.s[s].pending_recv /\ group
                 THEN xg_pending_recv_insert(G1, s) ELSE G1))

\* One completion of xlio_sock_poll_fd, for socket s with the events ev.
xg_poll_completion(G, s, ev, cb_removes) ==
    With(IF "ERR" \in ev THEN xg_check_zcopy(G, s, cb_removes) ELSE G, LAMBDA G1 :
        IF "ERR" \in ev /\ ~G1.s[s].cb_fn THEN G1
        ELSE With(IF "PACKET" \in ev
                  THEN [G1 EXCEPT !.s[s].packets = Min({@ + 1, MaxXgPackets})]
                  ELSE G1, LAMBDA G2 :
                 IF "PACKET" \in ev /\ G2.s[s].group_impl /\ ~G2.s[s].pending_recv
                 THEN xg_pending_recv_insert(G2, s) ELSE G2))

\* xlio_sock_poll_fd of the group's rings: the completions of the sockets
\* that use one of them.
RECURSIVE xg_poll_fd(_, _, _)
xg_poll_fd(G, socks, in) ==
    IF socks = {} THEN G
    ELSE With(Min(socks), LAMBDA s :
             xg_poll_fd(xg_poll_completion(G, s, in[s].ev, in[s].cb_removes),
                        socks \ {s}, in))

\* TAILQ_FOREACH_SAFE over pending_recv: the sockets handed to the caller.
RECURSIVE xg_poll_collect(_, _, _)
xg_poll_collect(G, todo, max_events) ==
    IF todo = <<>> \/ Len(G.returned) = max_events THEN G
    ELSE With(Head(todo), LAMBDA s :
             xg_poll_collect(
                 IF ~G.s[s].cb_fn
                 THEN [G EXCEPT !.s[s].pending_recv = FALSE,
                                !.pending_recv = xg_unlink(@, s)]
                 ELSE [G EXCEPT !.returned = Append(@, s)],
                 Tail(todo), max_events))

\* The returned sockets stay on pending_recv.
xg_poll_cycle_keeps(G, socks) == G

\* "Cycle the pending_recv list": the returned sockets leave it.
RECURSIVE xg_poll_cycle(_, _)
xg_poll_cycle(G, socks) ==
    IF socks = <<>> THEN G
    ELSE xg_poll_cycle([G EXCEPT !.pending_recv = xg_unlink(@, Head(socks)),
                                 !.s[Head(socks)].pending_recv = FALSE],
                       Tail(socks))

xlio_sock_group_impl_poll(G, max_events, in) ==
    With(xg_poll_send(G, G.pending_send, in), LAMBDA G1 :
    With(xg_poll_fd(G1, {s \in XgSocks :
                            \E i \in 1..Len(G1.ring_fd) :
                                G1.rings[G1.ring_fd[i]].fd = G1.s[s].fd}, in),
         LAMBDA G2 :
    With(xg_poll_collect(G2, G2.pending_recv, max_events), LAMBDA G3 :
        [xg_poll_cycle(G3, G3.returned) EXCEPT !.over = Len(G3.returned) > max_events])))

XgFlushOutcomes == {"none", "copy", "zcopy", "error"}

XgInputs == [out : XgFlushOutcomes, ev : SUBSET {"ERR", "PACKET"}, cb_removes : BOOLEAN]

XgNoInput == [out |-> "none", ev |-> {}, cb_removes |-> FALSE]

\* What the last step recorded is forgotten when the next one starts.
XgStart ==
    [xgroup EXCEPT !.op = "none", !.arg = NULL, !.returned = <<>>]

XgInit ==
    /\ QpairIdle
    /\ sock = SockIdle /\ packets = PacketsIdle
    /\ g_rdma_utils_mr_maps = MemMapsIdle /\ conn = ConnIdle /\ r2t_req = R2tIdle
    /\ recv_hdr = HdrIdle /\ send_hdr = SendHdrIdle /\ tgroup = TgroupIdle
    /\ pgroup = PgroupIdle
    /\ xgroup = XgroupIdle /\ vsock = VsockIdle /\ rqpair = RqpairIdle

XgStep(G) ==
    /\ xgroup' = G
    /\ UNCHANGED <<tqpair, qpair, tcp_reqs, nvme_reqs, accel, hist,
                   sock, packets, g_rdma_utils_mr_maps, conn, r2t_req,
                   recv_hdr, send_hdr, tgroup, pgroup, vsock, rqpair>>

XgAddSock(s) ==
    /\ ~xgroup.s[s].group_impl
    /\ xgroup.s[s].ring_fd # NULL \/ Len(xgroup.rings) < MaxXgRings
    /\ XgStep(xlio_sock_group_impl_add_sock(XgStart, s))

XgRemoveSock(s) ==
    /\ xgroup.s[s].group_impl
    /\ XgStep(xlio_sock_group_impl_remove_sock(XgStart, s))

XgWritevAsync(s, iovcnt, out, cb_removes) ==
    /\ Len(xgroup.s[s].queued_reqs) + xgroup.s[s].pending_reqs < MaxXgQueued
    /\ xg_iovcnt(xgroup.s[s].queued_reqs) + iovcnt < IOV_BATCH_SIZE
           => out = "none" /\ ~cb_removes
    /\ XgStep([xlio_sock_writev_async(XgStart, s, iovcnt, out, cb_removes)
                  EXCEPT !.op = "writev_async", !.arg = s])

\* The socket's callback reads what has arrived: all of it, or it runs out
\* of buffers first (xlio_sock_recv_zcopy) and the socket stays pending.
XgRecv(s, nobuf) ==
    /\ xgroup.s[s].group_impl
    /\ xgroup.s[s].packets > 0
    /\ XgStep(IF ~nobuf THEN [XgStart EXCEPT !.s[s].packets = 0]
              ELSE IF ~xgroup.s[s].pending_recv
              THEN xg_pending_recv_insert(XgStart, s) ELSE XgStart)

\* A receive on a socket that is in no group: poll_no_group_socket.
XgRecvNoGroup(s) ==
    /\ ~xgroup.s[s].group_impl
    /\ xgroup.s[s].ring_fd = NULL
    /\ Len(xgroup.rings) < MaxXgRings
    /\ XgStep(xg_ring_alloc(XgStart, s))

\* The inputs of a poll that can matter to socket s: sendmsg is called for a
\* socket on pending_send with requests queued, the ring reports a socket
\* that uses it, an acknowledgement comes for a zero-copy send, and a
\* callback runs when a request completes.
XgPollInputs(s) ==
    {i \in XgInputs :
        /\ (~xgroup.s[s].pending_send \/ xgroup.s[s].queued_reqs = <<>>)
               => i.out = "none"
        /\ xgroup.s[s].ring_fd = NULL => i.ev = {}
        /\ "ERR" \in i.ev => xgroup.s[s].pending_reqs > 0 \/ i.out = "zcopy"
        /\ i.cb_removes => i.out \in {"copy", "error"} \/ "ERR" \in i.ev}

XgPoll(max_events, in) ==
    /\ max_events <= MaxXgEvents
    /\ XgStep([xlio_sock_group_impl_poll(XgStart, max_events, in)
                  EXCEPT !.op = "poll"])

XgNext ==
    \/ \E s \in XgSocks : XgAddSock(s)
    \/ \E s \in XgSocks : XgRemoveSock(s)
    \/ \E s \in XgSocks, iovcnt \in {1, IOV_BATCH_SIZE},
          out \in XgFlushOutcomes, cb_removes \in BOOLEAN :
           XgWritevAsync(s, iovcnt, out, cb_removes)
    \/ \E s \in XgSocks, nobuf \in BOOLEAN : XgRecv(s, nobuf)
    \/ \E s \in XgSocks : XgRecvNoGroup(s)
    \/ \E max_events \in 1..MaxXgEvents,
          i1 \in XgPollInputs(1), i2 \in XgPollInputs(2) :
           XgPoll(max_events, <<i1, i2>>)

XgSpec == XgInit /\ [][XgNext]_vars

\* ------------------------------------------------ xlio socket: send batching
\* One socket with the batching options of the implementation. Every request
\* has one iovec of 1..MaxBatchLen bytes; the clock counts ticks.

spdk_min(a, b) == IF a < b THEN a ELSE b
spdk_max(a, b) == IF a > b THEN a ELSE b

\* (now - batch_start_tsc) * SPDK_SEC_TO_USEC / spdk_get_ticks_hz()
batch_elapsed_us(V) ==
    ((V.now - V.batch_start_tsc) * SPDK_SEC_TO_USEC) \div V.ticks_hz

batch_timed_out(V) ==
    V.batch_start_tsc # 0 /\ batch_elapsed_us(V) > V.flush_batch_timeout

\* xlio_sock_flush_now halving at every timeout, whatever the queue holds.
xlio_sock_flush_now_halves(V, qlen_bytes) ==
    IF V.flush_batch_timeout = 0 THEN <<V, TRUE, "always">>
    ELSE IF qlen_bytes >= V.flush_batch_bytes_threshold
    THEN <<[V EXCEPT !.batch_start_tsc = 0], TRUE, "bytes">>
    ELSE IF batch_timed_out(V)
    THEN <<[V EXCEPT !.batch_nr = spdk_max(@ \div 2, 1), !.batch_start_tsc = 0],
           TRUE, "timeout">>
    ELSE IF V.queued_iovcnt >= V.batch_nr
    THEN <<[V EXCEPT !.batch_nr = spdk_min(@ + 1, V.flush_batch_iovcnt_threshold),
                     !.batch_start_tsc = 0], TRUE, "iovcnt">>
    ELSE <<[V EXCEPT !.batch_start_tsc = IF @ = 0 THEN V.now ELSE @], FALSE, "withheld">>

\* The socket afterwards, the return value and the branch that decided.
xlio_sock_flush_now(V, qlen_bytes) ==
    IF V.flush_batch_timeout = 0 THEN <<V, TRUE, "always">>
    ELSE IF qlen_bytes >= V.flush_batch_bytes_threshold
    THEN <<[V EXCEPT !.batch_start_tsc = 0], TRUE, "bytes">>
    ELSE IF batch_timed_out(V)
    THEN <<[V EXCEPT !.batch_nr = IF V.queued_iovcnt < @
                                  THEN spdk_max(@ \div 2, 1) ELSE @,
                     !.batch_start_tsc = 0], TRUE, "timeout">>
    ELSE IF V.queued_iovcnt >= V.batch_nr
    THEN <<[V EXCEPT !.batch_nr = spdk_min(@ + 1, V.flush_batch_iovcnt_threshold),
                     !.batch_start_tsc = 0], TRUE, "iovcnt">>
    ELSE <<[V EXCEPT !.batch_start_tsc = IF @ = 0 THEN V.now ELSE @], FALSE, "withheld">>

\* _sock_flush_ext as far as batching goes: sendmsg writes the first `sent`
\* requests (none when the socket is not writable).
batch_sock_flush_ext(V, sent) ==
    IF V.queued_reqs = <<>> THEN V
    ELSE LET r == xlio_sock_flush_now(V, SeqSum(V.queued_reqs)) IN
         IF ~r[2] THEN [r[1] EXCEPT !.flush_now = r[3]]
         ELSE [r[1] EXCEPT !.flush_now = r[3],
                           !.queued_reqs = SubSeq(@, sent + 1, Len(@)),
                           !.queued_iovcnt = @ - sent]

batch_writev_async(V, len, sent) ==
    LET V1 == [V EXCEPT !.queued_reqs = Append(@, len), !.queued_iovcnt = @ + 1]
    IN  IF V1.queued_iovcnt >= IOV_BATCH_SIZE THEN batch_sock_flush_ext(V1, sent)
        ELSE V1

BatchTicksHz == {SPDK_SEC_TO_USEC, 2 * SPDK_SEC_TO_USEC}

BatchStart == [vsock EXCEPT !.flush_now = "none"]

BatchInit ==
    /\ QpairIdle
    /\ sock = SockIdle /\ packets = PacketsIdle
    /\ g_rdma_utils_mr_maps = MemMapsIdle /\ conn = ConnIdle /\ r2t_req = R2tIdle
    /\ recv_hdr = HdrIdle /\ send_hdr = SendHdrIdle /\ tgroup = TgroupIdle
    /\ pgroup = PgroupIdle /\ xgroup = XgroupIdle /\ rqpair = RqpairIdle
    /\ \E t \in 0..MaxBatchTimeout, i \in 0..MaxBatchIovcnt,
          b \in 1..MaxBatchBytes, hz \in BatchTicksHz :
           vsock = [VsockIdle EXCEPT !.flush_batch_timeout = t,
                                     !.flush_batch_iovcnt_threshold = i,
                                     !.flush_batch_bytes_threshold = b,
                                     !.ticks_hz = hz]

BatchStep(V) ==
    /\ vsock' = V
    /\ UNCHANGED <<tqpair, qpair, tcp_reqs, nvme_reqs, accel, hist,
                   sock, packets, g_rdma_utils_mr_maps, conn, r2t_req,
                   recv_hdr, send_hdr, tgroup, pgroup, xgroup, rqpair>>

BatchWritevAsync(len) ==
    /\ Len(vsock.queued_reqs) < MaxBatchQueued
    /\ BatchStep(batch_writev_async(BatchStart, len, 0))

BatchFlush(sent) ==
    /\ sent <= Len(vsock.queued_reqs)
    /\ BatchStep(batch_sock_flush_ext(BatchStart, sent))

BatchTick ==
    /\ vsock.now < MaxBatchTicks
    /\ BatchStep([BatchStart EXCEPT !.now = @ + 1])

BatchNext ==
    \/ \E len \in 1..MaxBatchLen : BatchWritevAsync(len)
    \/ \E sent \in 0..MaxBatchQueued : BatchFlush(sent)
    \/ BatchTick

BatchSpec == BatchInit /\ [][BatchNext]_vars

\* ------------------------------------------- the receive state machine
\* rqpair is one qpair with its own receive PDU.  stream holds what the target
\* has sent: for each PDU its type, whether nvme_tcp_pdu_ch_handle accepts
\* the common header (ch_ok), whether the handler of the type accepts the
\* rest of the header (psh_ok), the data length and, as the PDU completes
\* a request (a CAPSULE_RESP, and C2H_DATA which has LAST_PDU | SUCCESS) and
\* whether the callback of that request disconnects the qpair.  path is the
\* receive state when the last operation began followed by every state it
\* set, read_in the states in which it read bytes from the socket, handled
\* the PDUs whose header or payload handler it ran.
RecvPduTypes == {"CAPSULE_RESP", "C2H_DATA", "C2H_TERM_REQ"}

RecvPdus ==
    [pdu_type : RecvPduTypes, ch_ok : BOOLEAN, psh_ok : BOOLEAN,
     datal : 0..MaxRecvDatal, cb_disconnects : BOOLEAN]

\* One descriptor for each PDU that behaves differently.
RecvPduCanonical(p) ==
    /\ ~p.ch_ok => p.psh_ok /\ p.datal = 0 /\ ~p.cb_disconnects
    /\ ~p.psh_ok => p.datal = 0 /\ ~p.cb_disconnects
    /\ p.pdu_type = "CAPSULE_RESP" => p.datal = 0
    /\ p.pdu_type = "C2H_TERM_REQ" => p.datal = MaxRecvDatal /\ ~p.cb_disconnects

RecvPduLen(p) == expected_hlen(p.pdu_type) + p.datal

RECURSIVE RecvStreamEnd(_, _)
RecvStreamEnd(R, k) ==
    IF k = 0 THEN 0 ELSE RecvStreamEnd(R, k - 1) + RecvPduLen(R.stream[k])

RECURSIVE RecvPdusWithin(_, _, _)
RecvPdusWithin(R, k, n) ==
    IF k > Len(R.stream) \/ RecvStreamEnd(R, k) > n THEN k - 1
    ELSE RecvPdusWithin(R, k + 1, n)

\* The setter going to ERROR at once when nothing is outstanding.
recv_set_state_error_early(R, state) ==
    [R EXCEPT !.recv_state = IF state = "QUIESCING" /\ R.outstanding = 0
                             THEN "ERROR" ELSE state,
              !.path = Append(@, IF state = "QUIESCING" /\ R.outstanding = 0
                                 THEN "ERROR" ELSE state),
              !.assert_failed = @ \/ (state = "ERROR" /\ R.outstanding # 0)]

recv_set_state(R, state) ==
    IF R.recv_state = state THEN R
    ELSE [R EXCEPT !.recv_state = state,
                   !.path = Append(@, state),
                   !.assert_failed = @ \/ (state = "ERROR" /\ R.outstanding # 0)]

\* nvme_tcp_read_data: what the socket has, up to len bytes, or -1.
recv_read_data(R, len) == IF R.sock_err THEN -1 ELSE Min({len, R.sock})

recv_took(R, rc) ==
    [R EXCEPT !.sock = @ - rc,
              !.read_in = IF rc > 0 THEN @ \cup {R.recv_state} ELSE @]

\* nvme_tcp_ctrlr_disconnect_qpair: the requests are aborted, except those
\* an accel sequence still works on, and the receive state is QUIESCING.
recv_ctrlr_disconnect_qpair(R) ==
    recv_set_state([R EXCEPT !.outstanding = R.in_accel], "QUIESCING")

recv_transport_disconnect_qpair(R) ==
    IF R.qstate \in {"DISCONNECTING", "DISCONNECTED"} THEN R
    ELSE recv_ctrlr_disconnect_qpair([R EXCEPT !.qstate = "DISCONNECTING"])

\* nvme_tcp_req_complete_safe of the oldest request that no accel sequence
\* works on; its callback may disconnect the qpair.
recv_req_complete(R, p) ==
    IF R.outstanding = R.in_accel THEN R
    ELSE With([R EXCEPT !.outstanding = @ - 1], LAMBDA R1 :
             IF p.cb_disconnects THEN recv_transport_disconnect_qpair(R1) ELSE R1)

\* nvme_tcp_qpair_send_h2c_term_req.
recv_send_h2c_term_req(R) == recv_set_state(R, "QUIESCING")

recv_pdu_ch_handle(R, p) ==
    IF ~p.ch_ok THEN recv_send_h2c_term_req(R)
    ELSE recv_set_state(
             [R EXCEPT !.pdu.psh_len = expected_hlen(p.pdu_type) - COMMON_PDU_HDR_LEN],
             "AWAIT_PDU_PSH")

recv_pdu_psh_handle(R0, p) ==
    With([R0 EXCEPT !.handled = Append(@, [handler |-> "psh",
                                           recv_state |-> R0.recv_state,
                                           ch_valid_bytes |-> R0.pdu.ch_valid_bytes,
                                           ch_ok |-> p.ch_ok])],
         LAMBDA R :
        IF ~p.psh_ok \/ (p.pdu_type # "C2H_TERM_REQ" /\ R.outstanding = R.in_accel)
        THEN recv_send_h2c_term_req(R)
        ELSE IF p.pdu_type = "CAPSULE_RESP"
        THEN recv_req_complete(
                 recv_set_state([R EXCEPT !.next = @ + 1], "AWAIT_PDU_READY"), p)
        ELSE recv_set_state([R EXCEPT !.pdu.data_len = p.datal],
                            "AWAIT_PDU_PAYLOAD"))

\* nvme_tcp_pdu_payload_handle and _nvme_tcp_pdu_payload_handle.
recv_pdu_payload_handle(R0, p) ==
    With([R0 EXCEPT !.handled = Append(@, [handler |-> "payload",
                                           recv_state |-> R0.recv_state,
                                           ch_valid_bytes |-> R0.pdu.ch_valid_bytes,
                                           ch_ok |-> p.ch_ok])],
         LAMBDA R :
        IF p.pdu_type = "C2H_DATA"
        THEN recv_set_state(recv_req_complete(R, p), "AWAIT_PDU_READY")
        ELSE recv_set_state(R, "QUIESCING"))

\* The loop of nvme_tcp_read_pdu; the result is the state when the function
\* returns, with rc its return value.
RECURSIVE recv_read_pdu(_)
recv_read_pdu(R) ==
    LET pdu == R.pdu
        p == R.stream[R.next]
        next(R1) == IF R1.recv_state = R.recv_state
                    THEN [R1 EXCEPT !.rc = IF @ > 0 THEN 0 ELSE @]
                    ELSE recv_read_pdu(R1)
    IN  CASE R.recv_state = "AWAIT_PDU_READY" ->
                 next(recv_set_state(
                          [R EXCEPT !.pdu.ch_valid_bytes = 0,
                                    !.pdu.psh_valid_bytes = 0,
                                    !.pdu.rw_offset = 0], "AWAIT_PDU_CH"))
          [] R.recv_state = "AWAIT_PDU_CH" ->
                 LET rc == recv_read_data(R, COMMON_PDU_HDR_LEN - pdu.ch_valid_bytes)
                 IN  IF rc < 0
                     THEN next(recv_set_state([R EXCEPT !.rc = rc], "QUIESCING"))
                     ELSE With([recv_took(R, rc) EXCEPT !.pdu.ch_valid_bytes = @ + rc,
                                                        !.rc = rc],
                               LAMBDA R1 :
                              IF R1.pdu.ch_valid_bytes < COMMON_PDU_HDR_LEN
                              THEN [R1 EXCEPT !.rc = 0]
                              ELSE next(recv_pdu_ch_handle(R1, p)))
          [] R.recv_state = "AWAIT_PDU_PSH" ->
                 LET rc == recv_read_data(R, pdu.psh_len - pdu.psh_valid_bytes)
                 IN  IF rc < 0
                     THEN next(recv_set_state([R EXCEPT !.rc = rc], "QUIESCING"))
                     ELSE With([recv_took(R, rc) EXCEPT !.pdu.psh_valid_bytes = @ + rc,
                                                        !.rc = rc],
                               LAMBDA R1 :
                              IF R1.pdu.psh_valid_bytes < pdu.psh_len
                              THEN [R1 EXCEPT !.rc = 0]
                              ELSE next(recv_pdu_psh_handle(R1, p)))
          [] R.recv_state = "AWAIT_PDU_PAYLOAD" ->
                 LET rc == recv_read_data(R, pdu.data_len - pdu.rw_offset)
                 IN  IF pdu.data_len = 0 THEN [R EXCEPT !.rc = 0]
                     ELSE IF rc < 0
                     THEN next(recv_set_state([R EXCEPT !.rc = rc], "QUIESCING"))
                     ELSE With([recv_took(R, rc) EXCEPT !.pdu.rw_offset = @ + rc,
                                                        !.rc = rc],
                               LAMBDA R1 :
                              IF R1.pdu.rw_offset < pdu.data_len
                              THEN [R1 EXCEPT !.rc = 0]
                              ELSE next(recv_pdu_payload_handle(
                                            [R1 EXCEPT !.next = @ + 1], p)))
          [] R.recv_state = "QUIESCING" ->
                 IF R.outstanding = 0
                 THEN next(recv_set_state(
                               IF R.qstate = "DISCONNECTING"
                               THEN [R EXCEPT !.qstate = "DISCONNECTED"] ELSE R,
                               "ERROR"))
                 ELSE next(R)
          [] OTHER -> [R EXCEPT !.rc = -1]   \* NVME_TCP_PDU_FATAL

\* nvme_tcp_qpair_process_completions of a qpair in a poll group.
recv_process_completions(R) ==
    With(recv_read_pdu([R EXCEPT !.rc = 0]), LAMBDA R1 :
        IF R1.rc < 0 THEN recv_transport_disconnect_qpair(R1) ELSE R1)

RecvStart == [rqpair EXCEPT !.path = <<rqpair.recv_state>>, !.read_in = {},
                            !.handled = <<>>, !.rc = 0]

RecvInit ==
    /\ QpairIdle
    /\ sock = SockIdle /\ packets = PacketsIdle
    /\ g_rdma_utils_mr_maps = MemMapsIdle /\ conn = ConnIdle /\ r2t_req = R2tIdle
    /\ recv_hdr = HdrIdle /\ send_hdr = SendHdrIdle /\ tgroup = TgroupIdle
    /\ pgroup = PgroupIdle /\ xgroup = XgroupIdle /\ vsock = VsockIdle
    /\ rqpair = [RqpairIdle EXCEPT !.path = <<"AWAIT_PDU_READY">>]

RecvStep(R) ==
    /\ rqpair' = R
    /\ UNCHANGED <<tqpair, qpair, tcp_reqs, nvme_reqs, accel, hist,
                   sock, packets, g_rdma_utils_mr_maps, conn, r2t_req,
                   recv_hdr, send_hdr, tgroup, pgroup, xgroup, vsock>>

\* A request is submitted; with accel an accel sequence works on it.
RecvSubmit(accel_seq) ==
    /\ rqpair.qstate = "CONNECTED"
    /\ rqpair.submits < MaxRecvSubmits
    /\ RecvStep([RecvStart EXCEPT !.outstanding = @ + 1,
                                  !.submits = @ + 1,
                                  !.in_accel = IF accel_seq THEN @ + 1 ELSE @])

\* The accel sequence of a request finishes and the request completes (on a
\* disconnected qpair with ABORTED_SQ_DELETION).
RecvAccelDone ==
    /\ rqpair.in_accel > 0
    /\ RecvStep([RecvStart EXCEPT !.in_accel = @ - 1, !.outstanding = @ - 1])

RecvTargetSend(p) ==
    /\ rqpair.sent < MaxRecvPdus
    /\ rqpair.qstate = "CONNECTED"
    /\ RecvPduCanonical(p)
    /\ RecvStep([RecvStart EXCEPT !.stream = Append(@, p), !.sent = @ + 1])

\* The byte counts the socket is given at a time: none, one byte near the
\* start of a PDU, the rest of the common header, the rest of the header,
\* all the target has sent.
RecvChunks ==
    LET left == RecvStreamEnd(rqpair, Len(rqpair.stream)) - rqpair.delivered
        offset == rqpair.delivered -
                  RecvStreamEnd(rqpair, RecvPdusWithin(rqpair, 1, rqpair.delivered))
    IN  {n \in {0, left, COMMON_PDU_HDR_LEN - offset,
                expected_hlen("C2H_DATA") - offset} : n >= 0 /\ n <= left}
        \cup (IF offset < MaxRecvSplit /\ left > 0 THEN {1} ELSE {})

\* The socket is given n more bytes of the stream, or fails, and the poll
\* group calls nvme_tcp_qpair_process_completions.
RecvPoll(n, err) ==
    /\ rqpair.qstate \in {"CONNECTED", "DISCONNECTING"}
    /\ n \in RecvChunks
    /\ RecvStep(recv_process_completions(
                    [RecvStart EXCEPT !.delivered = @ + n, !.sock = @ + n,
                                      !.sock_err = @ \/ err]))

\* The application disconnects the qpair.
RecvDisconnect ==
    /\ rqpair.qstate = "CONNECTED"
    /\ RecvStep(recv_transport_disconnect_qpair(RecvStart))

\* nvme_tcp_ctrlr_connect_qpair on a new socket.
RecvConnect ==
    /\ rqpair.qstate = "DISCONNECTED"
    /\ RecvStep(recv_set_state(
                    [RecvStart EXCEPT !.qstate = "CONNECTED", !.sock = 0,
                                      !.sock_err = FALSE,
                                      !.stream = <<>>, !.next = 1, !.delivered = 0],
                    "AWAIT_PDU_READY"))

RecvNext ==
    \/ \E accel_seq \in BOOLEAN : RecvSubmit(accel_seq)
    \/ RecvAccelDone
    \/ \E p \in RecvPdus : RecvTargetSend(p)
    \/ \E n \in RecvChunks, err \in BOOLEAN : RecvPoll(n, err)
    \/ RecvDisconnect
    \/ RecvConnect

RecvSpec == RecvInit /\ [][RecvNext]_vars

\* ------------------------------------------------------------------ claims
OnOutstanding(r) == InSeq(tqpair.outstanding_reqs, r)

\* The user callback of r ran in the step that led to this state.
CbRan(r) == hist.cb[r].sc # "none"

\* C1: a request accepted by submit gets its user completion callback exactly
\* once: no callback runs for a request that has none pending or twice in one
\* step, and once the qpair is DISCONNECTED no accepted request still waits
\* for its callback.
C1_CompletedExactlyOnce ==
    /\ ~hist.dup_cb
    /\ qpair.state = "DISCONNECTED" => \A r \in Reqs : ~hist.pending[r]

\* Statuses a completion takes from the target's response.
TargetSc == {SC_SUCCESS, SC_TARGET_ERROR}

\* The step acknowledged the CAPSULE_CMD of r, whose response had arrived
\* while the send was unacknowledged.
AckAfterResp(r) ==
    /\ hist'.acked = r
    /\ tcp_reqs[r].data_recv
    /\ ~tcp_reqs[r].send_ack

BothBitsAtCompletion(r) ==
    hist'.cb[r].sc \in TargetSc => hist'.cb[r].send_ack /\ hist'.cb[r].data_recv

\* C2: a request is completed with the target's response only with
\* send_ack and data_recv both set, and the acknowledgement that follows an
\* early CAPSULE_RESP completes the request in that step.
C2_AckCompletes ==
    [][\A r \in Reqs :
          /\ BothBitsAtCompletion(r)
          /\ AckAfterResp(r) => hist'.cb[r].sc # "none"]_vars

\* C3: in both pool modes each outstanding request has its CID
\* allocated in the CID bit pool and the lookup table maps the CID to it.
C3_CidAllocatedAndMapped ==
    \A r \in Reqs :
        OnOutstanding(r) =>
            /\ tcp_reqs[r].cid \in tqpair.cid_pool
            /\ tcp_reqs[r].cid \in Cids
            /\ tqpair.tcp_reqs_lookup[tcp_reqs[r].cid] = r

C6_DisconnectAborts ==
    hist.disconnect_ret # NoReturn =>
        /\ \A r \in hist.aborting :
               hist.cb[r].sc = SC_ABORTED_SQ_DELETION /\ ~hist.pending[r]
        /\ hist.disconnect_ret.send_queue = <<>>
        /\ ~hist.disconnect_ret.needs_poll
        /\ hist.disconnect_ret.recv_state = "QUIESCING"

\* Disconnect aborted a request whose CAPSULE_CMD was still on the send queue.
C6_Witness ==
    /\ hist.disconnect_ret # NoReturn
    /\ hist.aborting # {}
    /\ \E r \in hist.aborting : ~hist.cb[r].send_ack /\ hist.cb[r].sc = SC_ABORTED_SQ_DELETION

\* C7: the socket is not closed while a request holds received packet
\* buffers, and no packet buffer is released against a closed socket.
C7_SocketOutlivesBuffers ==
    /\ ~tqpair.sock => \A r \in Reqs : tcp_reqs[r].sock_buf = 0
    /\ ~hist.freed_on_closed

\* C8: the step that marks the qpair disconnected (disconnect_qpair_done, or
\* the receive state becoming ERROR) leaves no request with in_progress_accel
\* on the outstanding list.
C8_NoAccelWhenMarkedDisconnected ==
    [][(\/ qpair.state # "DISCONNECTED" /\ qpair'.state = "DISCONNECTED"
        \/ tqpair.recv_state # "ERROR" /\ tqpair'.recv_state = "ERROR")
       => \A r \in Reqs :
              ~(OnOutstanding(r)' /\ tcp_reqs'[r].in_progress_accel)]_vars

\* The qpair was marked disconnected after requests had been submitted on it.
C8_Witness ==
    /\ qpair.state = "DISCONNECTED"
    /\ tqpair.recv_state = "ERROR"
    /\ hist.submits > 0

\* C10: while the accel sequence of a request is in flight the request is on
\* the outstanding list, active, and its callback still pending.
AccelInFlight(r) == accel[r] \cap {"in_capsule", "md_copy", "c2h_crc"} # {}

C10_SuspendedDuringAccel ==
    \A r \in Reqs :
        AccelInFlight(r) =>
            /\ OnOutstanding(r)
            /\ tcp_reqs[r].state = "ACTIVE"
            /\ tcp_reqs[r].in_progress_accel
            /\ hist.pending[r]

\* The qpair has answered a fatal receive error: its H2C_TERM_REQ is on the
\* way out and nobody has called disconnect.
TermReqSent ==
    /\ qpair.state = "CONNECTED"
    /\ \E i \in 1..Len(tqpair.send_queue) : tqpair.send_queue[i].type = "H2C_TERM_REQ"

\* C5: after a fatal receive error answered with H2C_TERM_REQ, every request
\* that was outstanding is eventually completed, without the target or the
\* application doing anything more.
C5_FatalErrorDrains == TermReqSent ~> (tqpair.outstanding_reqs = <<>> \/ hist.crashed)

\* C9: once disconnect was called the outstanding list empties and the qpair
\* becomes DISCONNECTED.
C9_DisconnectCompletes ==
    (qpair.state = "DISCONNECTING")
        ~> ((qpair.state = "DISCONNECTED" /\ tqpair.outstanding_reqs = <<>>)
            \/ hist.crashed)

\* A completed zero-copy request is with the user while its transport request
\* is gone: no active request under its CID.
TransportRequestGone(r) ==
    /\ nvme_reqs[r].st = "COMPLETED"
    /\ get_nvme_active_req_by_cid(World, nvme_reqs[r].cid) = NULL

\* C11: free_request of a zero-copy request whose transport request is already
\* freed returns an error code and leaves the qpair as it was: no request goes
\* to the free pool, no packet buffer is released, async_complete and
\* needs_poll are not modified.
C11_FreeRequestIdempotent ==
    [][\A r \in Reqs :
          (TransportRequestGone(r) /\ FreeRequest(r) /\ ~hist'.crashed)
              => /\ hist'.free_ret = "EINVAL"
                 /\ tqpair' = tqpair
                 /\ \A q \in Reqs : tcp_reqs'[q].state = tcp_reqs[q].state
                 /\ ~hist'.freed_on_closed
                 /\ hist'.async_complete = 0]_vars

\* C12: submit returns -EAGAIN, and the request is queued for a later retry,
\* in each of: the CID pool is empty, the staging buffer is not immediately
\* available, building the scatter-gather list fails.
C12_SubmitEagain ==
    hist.submit.why \in {"cid_pool_empty", "no_iobuf", "sgl_build_failed"}
        => hist.submit.ret = "EAGAIN"

\* C13: a request whose C2H data failed the data-digest check is completed
\* with COMMAND_TRANSIENT_TRANSPORT_ERROR, never with success, also when the
\* failing PDU had LAST without SUCCESS and a CAPSULE_RESP follows; the failure
\* itself does not tear the qpair down. (A request aborted by a disconnect
\* takes the abort status.)
C13_DigestErrorCompletion ==
    [][/\ \A r \in Reqs :
           (/\ hist'.cb[r].sc # "none"
            /\ hist'.cb[r].ddgst_failed
            /\ r \notin hist'.aborting)
               => hist'.cb[r].sc = SC_TRANSIENT_TRANSPORT_ERROR
       /\ (hist'.ddgst_error /\ ~hist'.crashed)
               => /\ qpair'.state = qpair.state
                  /\ tqpair'.sock = tqpair.sock
                  /\ \/ tqpair'.recv_state = tqpair.recv_state
                     \/ tqpair'.recv_state \in {"AWAIT_PDU_READY", "AWAIT_PDU_CH"}]_vars

\* C14: when the translation to memory keys fails while a CAPSULE_CMD PDU is
\* prepared, the PDU is aborted (not left on the send queue, never handed to
\* the socket) and the request is completed with INTERNAL_DEVICE_ERROR exactly
\* once and removed from the outstanding list.
C14_MkeyFailureAborts ==
    hist.mkey_failed # NULL =>
        /\ \A i \in 1..Len(tqpair.send_queue) :
               tqpair.send_queue[i].req # hist.mkey_failed
        /\ hist.cb[hist.mkey_failed].sc = SC_INTERNAL_DEVICE_ERROR
        /\ ~hist.dup_cb
        /\ ~InSeq(tqpair.outstanding_reqs, hist.mkey_failed)

\* C15: the send requests of a socket complete in the order they were
\* queued, for any mix of zero-copy and copied sends, partial sends and
\* notification ranges; so a copied request completes at its send only when
\* no earlier request is pending.
C15_SendFifo ==
    \A i, j \in 1..Len(sock.completed) :
        i < j => sock.completed[i] < sock.completed[j]

\* The handed-out chunk buffers whose payload lies in packet p.
ChunksIn(p) ==
    SeqSum([i \in 1..Len(packets.bufs) |->
               Len(SelectSeq(packets.bufs[i], LAMBDA b : b.owner = p))])

\* C16: a received packet's refs is 1 while it is on the received list plus
\* the number of handed-out chunk buffers whose payload lies in it; it has
\* been returned to xlio exactly once if refs is 0 and not at all otherwise,
\* so never while a chunk buffer still points into it.
C16_PacketRefs ==
    \A p \in 1..Len(packets.pkts) :
        /\ packets.pkts[p].refs =
               (IF InSeq(packets.received_packets, p) THEN 1 ELSE 0) + ChunksIn(p)
        /\ packets.pkts[p].returned = (IF packets.pkts[p].refs = 0 THEN 1 ELSE 0)
        /\ (packets.pkts[p].returned > 0 => ChunksIn(p) = 0)

\* C17: the bytes the receive calls delivered so far are the first bytes of
\* the payload in arrival order, none skipped and none twice, and no call
\* returned more than it was asked for.
C17_RecvInOrder ==
    /\ packets.delivered = [i \in 1..Len(packets.delivered) |-> i]
    /\ packets.ret <= packets.len

\* The handles to map m that are out: held by a thread, or given to
\* free_mem_map and not yet counted down.
RECURSIVE Holders(_, _)
Holders(m, ts) ==
    IF ts = {} THEN 0
    ELSE With(CHOOSE t \in ts : TRUE, LAMBDA t :
             Len(SelectSeq(g_rdma_utils_mr_maps.thread[t].held, LAMBDA h : h = m))
             + (IF g_rdma_utils_mr_maps.thread[t].pc = "free"
                   /\ g_rdma_utils_mr_maps.thread[t].map = m THEN 1 ELSE 0)
             + Holders(m, ts \ {t}))

\* C18: the registry has at most one map per (pd, access flags); a registered
\* map has ref_count >= 1, equal to the handles that are out, so a create on
\* an existing pair returned that map and counted it; a map that is no longer
\* registered has no holder left, was unlinked by the last release and is
\* destroyed once, by the thread that released it.
C18_OneMapPerPair ==
    /\ \A i, j \in 1..Len(g_rdma_utils_mr_maps.list) :
           i # j =>
               \/ g_rdma_utils_mr_maps.maps[g_rdma_utils_mr_maps.list[i]].pd #
                      g_rdma_utils_mr_maps.maps[g_rdma_utils_mr_maps.list[j]].pd
               \/ g_rdma_utils_mr_maps.maps[g_rdma_utils_mr_maps.list[i]].accel_flags #
                      g_rdma_utils_mr_maps.maps[g_rdma_utils_mr_maps.list[j]].accel_flags
    /\ \A m \in 1..Len(g_rdma_utils_mr_maps.maps) :
           IF InSeq(g_rdma_utils_mr_maps.list, m)
           THEN /\ g_rdma_utils_mr_maps.maps[m].ref_count >= 1
                /\ g_rdma_utils_mr_maps.maps[m].ref_count = Holders(m, Threads)
                /\ g_rdma_utils_mr_maps.maps[m].destroyed = 0
           ELSE /\ g_rdma_utils_mr_maps.maps[m].ref_count = 0
                /\ Holders(m, Threads) = 0
                /\ IF \E t \in Threads :
                          /\ g_rdma_utils_mr_maps.thread[t].pc = "destroy"
                          /\ g_rdma_utils_mr_maps.thread[t].map = m
                   THEN g_rdma_utils_mr_maps.maps[m].destroyed = 0
                   ELSE g_rdma_utils_mr_maps.maps[m].destroyed = 1

\* Both threads hold the one map of a pair, and another map has been
\* released by its last holder and destroyed.
C18_Witness ==
    /\ \E m \in 1..Len(g_rdma_utils_mr_maps.maps) :
           /\ InSeq(g_rdma_utils_mr_maps.list, m)
           /\ g_rdma_utils_mr_maps.maps[m].ref_count = 2
           /\ \A t \in Threads : InSeq(g_rdma_utils_mr_maps.thread[t].held, m)
    /\ \E m \in 1..Len(g_rdma_utils_mr_maps.maps) :
           g_rdma_utils_mr_maps.maps[m].destroyed = 1

\* The registered translation of the map covers all of [address, address + length).
Covered(x) ==
    \A a \in x.address..(x.address + x.length - 1) :
        a <= MaxAddr /\ g_rdma_utils_mr_maps.maps[x.map].mem[a] # 0

\* C19: a translate call for a range that the registered translation does
\* not cover entirely never returns success: it returns an error (or, where
\* the build keeps the asserts, does not return at all).
C19_ShortTranslationFails ==
    (g_rdma_utils_mr_maps.xlate.ret # "none" /\ ~Covered(g_rdma_utils_mr_maps.xlate))
        => g_rdma_utils_mr_maps.xlate.ret # "0"

\* C20: a connect poll that finds the qpair in INVALID or INITIALIZING with
\* the ticks past icreq_timeout_tsc fails with ETIMEDOUT, and the qpair is
\* then being disconnected with transport failure reason unknown; a connect
\* poll of a qpair that has reached FABRIC_CONNECT_SEND never fails with
\* ETIMEDOUT.
C20_IcreqTimeout ==
    conn.poll.ran =>
        /\ (/\ conn.poll.state \in {"INVALID", "INITIALIZING"}
            /\ conn.poll.ticks > conn.icreq_timeout_tsc)
               => /\ conn.poll.rc = "ETIMEDOUT"
                  /\ conn.transport_failure_reason = "UNKNOWN"
                  /\ conn.qstate = "DISCONNECTING"
        /\ (conn.reached \/ conn.poll.state \notin {"INVALID", "INITIALIZING"})
               => conn.poll.rc # "ETIMEDOUT"

\* The IC_RESP came but the IC_REQ was never acknowledged: the connect poll
\* after the deadline timed out.
C20_Witness ==
    /\ conn.poll.ran /\ conn.poll.state = "INITIALIZING"
    /\ conn.poll.ticks = conn.icreq_timeout_tsc + 1
    /\ conn.poll.rc = "ETIMEDOUT"
    /\ conn.qstate = "DISCONNECTING"

\* C21: for every request active_r2ts never exceeds maxr2t + 1, whatever R2T
\* PDUs the target sends, R2Ts before the CAPSULE_CMD is acknowledged and
\* several R2Ts with the same r2to included.
C21_ActiveR2tsBounded ==
    r2t_req.active_r2ts <= NVME_TCP_MAX_R2T_DEFAULT + 1

\* The R2T continues the request's data and stays inside its payload.
R2tInRange(r) == r.r2to = r.datao /\ r.r2to + r.r2tl <= H2cPayloadSize

\* C22: while a send of the request is unacknowledged and an R2T is already
\* parked for it, a further R2T for the request is rejected with an
\* H2C_TERM_REQ of R2T_LIMIT_EXCEEDED; it is not parked and the parked ttag
\* and length stay.
C22_SecondParkRejected ==
    \A i \in 1..Len(r2t_req.r2ts) :
        r2t_req.r2ts[i].while_parked /\ R2tInRange(r2t_req.r2ts[i])
            => /\ r2t_req.r2ts[i].res = "rejected"
               /\ r2t_req.r2ts[i].fes = "R2T_LIMIT_EXCEEDED"

\* The H2C_DATA PDUs written for the R2T with this ttag, in order.
PdusOf(ttag) == SelectSeq(r2t_req.pdus, LAMBDA p : p.ttag = ttag)

\* C23: with maxr2t = 1, a second R2T that continues where the first R2T's
\* range ends and arrives while the H2C_DATA that ends the first range is
\* unacknowledged is parked without a protocol error, and the H2C_DATA that
\* follows the last H2C_DATA of the first R2T carries the second R2T's ttag,
\* starts at the request's datao and the PDUs for it transfer the parked
\* length.
C23_ParkedR2tAnswered ==
    LET r == r2t_req.r2ts
    IN  ( /\ Len(r) >= 2
          /\ r[1].res = "accepted"
          /\ r[2].send_queue = <<"H2C_DATA">>
          /\ r[2].r2to = r[1].r2to + r[1].r2tl
          /\ R2tInRange(r[2]) )
        => /\ r[2].res = "parked"
           /\ \A i \in 1..Len(r2t_req.pdus) :
                  (i > 1 /\ r2t_req.pdus[i - 1].ttag = r[1].ttag
                         /\ r2t_req.pdus[i - 1].last)
                  => /\ r2t_req.pdus[i].ttag = r[2].ttag
                     /\ r2t_req.pdus[i].datao = r[2].r2to
                     /\ r2t_req.pdus[i].datal = Min({r[2].r2tl, MaxH2cData})

\* The R2T was answered: taken at once, or parked and taken later.
R2tAnswered(r) == r.res \in {"accepted", "parked"}

\* C24: the H2C_DATA PDUs written for an accepted R2T (ttag T, offset O,
\* length L) all carry T, have datal = min(remaining, maxh2cdata), follow one
\* another from O without gap or overlap up to O + L, are each written when
\* no earlier PDU is unacknowledged, and the one that reaches O + L, and no
\* other, carries the LAST flag.
C24_H2cDataCoversR2t ==
    \A k \in 1..Len(r2t_req.r2ts) :
        LET r == r2t_req.r2ts[k]
            p == PdusOf(r.ttag)
        IN  R2tAnswered(r) =>
              \A i \in 1..Len(p) :
                 /\ p[i].datao = IF i = 1 THEN r.r2to
                                 ELSE p[i - 1].datao + p[i - 1].datal
                 /\ p[i].datal = Min({r.r2to + r.r2tl - p[i].datao, MaxH2cData})
                 /\ p[i].last = (p[i].datao + p[i].datal = r.r2to + r.r2tl)
                 /\ p[i].unacked = 0

HdrTermReqSent == recv_hdr.send_pdu.pdu_type = "H2C_TERM_REQ"

\* C25: every H2C_TERM_REQ the qpair writes carries in fes the code of the
\* error that was detected, in fei the error offset for INVALID_HEADER_FIELD
\* and unsupported-parameter errors and 0 otherwise, and embeds
\* min(hlen, 152) bytes of the offending header with plen = hlen + that count.
C25_TermReqContent ==
    HdrTermReqSent =>
        /\ recv_hdr.send_pdu.fes = fes_code(recv_hdr.detected.fes)
        /\ recv_hdr.send_pdu.fei =
               IF recv_hdr.detected.fes \in {"INVALID_HEADER_FIELD",
                                             "INVALID_DATA_UNSUPPORTED_PARAMETER"}
               THEN recv_hdr.detected.error_offset ELSE 0
        /\ recv_hdr.send_pdu.data_len = Min({recv_hdr.detected.pdu.hlen, 152})
        /\ recv_hdr.send_pdu.plen =
               recv_hdr.send_pdu.hlen + recv_hdr.send_pdu.data_len

\* The state in which the header of this PDU type is accepted.
HdrStateFits(pdu_type, state) ==
    IF pdu_type = "IC_RESP" THEN state = "INVALID"
    ELSE state \in {"FABRIC_CONNECT_SEND", "FABRIC_CONNECT_POLL", "RUNNING"}

\* C26: an IC_RESP header is accepted only in state INVALID and the headers
\* of the other PDU types only in FABRIC_CONNECT_SEND, FABRIC_CONNECT_POLL or
\* RUNNING; in any other state the PDU is not dispatched, an H2C_TERM_REQ
\* with PDU_SEQUENCE_ERROR is written and the receive state is QUIESCING; an
\* unknown PDU type gives INVALID_HEADER_FIELD with the offset of the type
\* field.
C26_HeaderStateGate ==
    /\ \A i \in 1..Len(recv_hdr.dispatched) :
           HdrStateFits(recv_hdr.dispatched[i].pdu_type, recv_hdr.dispatched[i].state)
    /\ (/\ recv_hdr.pdus > 0 /\ recv_hdr.pdu.pdu_type # "OTHER"
        /\ ~HdrStateFits(recv_hdr.pdu.pdu_type, recv_hdr.state))
           => /\ HdrTermReqSent
              /\ recv_hdr.send_pdu.fes = fes_code("PDU_SEQUENCE_ERROR")
              /\ recv_hdr.recv_state = "QUIESCING"
              /\ \A i \in 1..Len(recv_hdr.dispatched) :
                     recv_hdr.dispatched[i].seq # recv_hdr.pdus
    /\ (/\ recv_hdr.pdus > 0 /\ recv_hdr.pdu.pdu_type = "OTHER"
        /\ HdrStateFits("OTHER", recv_hdr.state))
           => /\ HdrTermReqSent
              /\ recv_hdr.send_pdu.fes = fes_code("INVALID_HEADER_FIELD")
              /\ recv_hdr.send_pdu.fei = 0


\* C27: the qpair enters FABRIC_CONNECT_SEND only from INVALID, by a valid
\* IC_RESP handled when the IC_REQ of this connect has already been written,
\* or from INITIALIZING, by the acknowledgement of that IC_REQ; INITIALIZING
\* is entered only from INVALID while the IC_REQ is unacknowledged; a qpair
\* that rejected the IC_RESP in INVALID goes to neither state; RUNNING is
\* entered only from FABRIC_CONNECT_POLL by a connect poll that returns 0.
C27_ConnectOrder ==
    [][/\ (conn'.reached /\ ~conn.reached)
              => \/ conn.state = "INVALID" /\ ~conn.icreq_pending
                 \/ /\ conn.state = "INITIALIZING"
                    /\ conn.icreq_pending /\ ~conn'.icreq_pending
       /\ (conn'.state = "INITIALIZING" /\ conn.state # "INITIALIZING")
              => conn.state = "INVALID" /\ conn.icreq_pending
       /\ (conn.state = "INVALID" /\ conn.quiesced)
              => ~conn'.reached /\ conn'.state # "INITIALIZING"
       /\ (conn'.state = "RUNNING" /\ conn.state # "RUNNING")
              => /\ conn.state = "FABRIC_CONNECT_POLL"
                 /\ conn'.poll.ran /\ conn'.poll.rc = "0"]_vars


\* ceil(n, a): n rounded up to the next multiple of a.
RoundUp(n, a) == ((n + a - 1) \div a) * a

\* C28: a CAPSULE_CMD with in-capsule data and an H2C_DATA PDU have pdo =
\* header length (plus header digest length if enabled) rounded up to the
\* next multiple of (cpda + 1) << 2, padding_len = the gap between the two,
\* and plen = pdo + data length (plus data digest length if enabled).
C28_PdoAligned ==
    send_hdr.pdu.data_len > 0 =>
        LET before == send_hdr.pdu.hlen +
                      (IF send_hdr.host_hdgst_enable
                       THEN SPDK_NVME_TCP_DIGEST_LEN ELSE 0)
        IN  /\ send_hdr.pdu.pdo = RoundUp(before, (send_hdr.cpda + 1) * 4)
            /\ send_hdr.pdu.padding_len = send_hdr.pdu.pdo - before
            /\ send_hdr.pdu.plen =
                   send_hdr.pdu.pdo + send_hdr.pdu.data_len +
                   (IF send_hdr.host_ddgst_enable
                    THEN SPDK_NVME_TCP_DIGEST_LEN ELSE 0)


\* The PDU in recv_hdr.pdu has been dispatched to the handler of its type.
HdrDispatched ==
    /\ Len(recv_hdr.dispatched) > 0
    /\ recv_hdr.dispatched[Len(recv_hdr.dispatched)].seq = recv_hdr.pdus

\* C29: a C2H_DATA PDU with SUCCESS but without LAST_PDU is rejected: its
\* handler leaves the receive state QUIESCING and the H2C_TERM_REQ that is
\* written carries INVALID_HEADER_FIELD.  (With LAST_PDU and SUCCESS the
\* request completes when the payload has been handled, with LAST_PDU alone
\* it waits for the CAPSULE_RESP.)
C29_SuccessWithoutLastRejected ==
    (/\ HdrDispatched
     /\ recv_hdr.pdu.pdu_type = "C2H_DATA"
     /\ recv_hdr.pdu.success /\ ~recv_hdr.pdu.last_pdu)
        => /\ recv_hdr.recv_state = "QUIESCING"
           /\ recv_hdr.send_pdu.pdu_type = "H2C_TERM_REQ"
           /\ recv_hdr.send_pdu.fes = fes_code("INVALID_HEADER_FIELD")


\* The PDUs of the stream whose header, and whose last byte, lies within the
\* first n bytes.
RECURSIVE RxHeadersWithin(_, _, _)
RxHeadersWithin(Q, k, n) ==
    IF k > Len(Q.stream) \/ RxStreamEnd(Q, k - 1) + RxHdrLen(Q, Q.stream[k]) > n
    THEN k - 1
    ELSE RxHeadersWithin(Q, k + 1, n)

RxCompletionsWithin(Q, n) ==
    Cardinality({k \in 1..Len(Q.stream) :
                    Q.stream[k] # "IC_RESP" /\ RxStreamEnd(Q, k) <= n})

\* The bytes of the PDU being received that nvme_tcp_read_pdu holds.
RxHeld(Q) ==
    IF Q.recv_state \in {"AWAIT_PDU_CH", "AWAIT_PDU_PSH", "AWAIT_PDU_PAYLOAD"}
    THEN Q.recv_pdu.ch_valid_bytes + Q.recv_pdu.psh_valid_bytes + Q.recv_pdu.rw_offset
    ELSE 0

\* C30: however the bytes of a qpair's PDUs are split across reads, with the
\* qpair's own receive PDU or the poll group's pool, every read takes all
\* the bytes the socket has and keeps them, the PDUs dispatched are those
\* whose header has arrived, in order, the requests completed are those whose
\* PDU has arrived in full, and nothing is rejected: what a single read of
\* each whole PDU gives.
C30_FragmentationIndependent ==
    \A q \in RxQpairs :
        LET Q == tgroup.q[q]
            whole == RxHeadersWithin(Q, 1, Q.delivered)
        IN  /\ Q.sock = 0
            /\ Q.recv_state \notin {"QUIESCING", "ERROR"}
            /\ Q.dispatched = SubSeq(Q.stream, 1, whole)
            /\ Q.completed = RxCompletionsWithin(Q, Q.delivered)
            /\ RxHeld(Q) = Q.delivered -
                           RxStreamEnd(Q, IF Q.recv_state = "AWAIT_PDU_PAYLOAD"
                                          THEN whole - 1 ELSE whole)

\* The qpairs linked on the needs_poll list.
NpLinked == {pgroup.needs_poll[i] : i \in 1..Len(pgroup.needs_poll)}

\* C31: needs_poll of a qpair is true exactly when the qpair is linked on the
\* group's needs_poll list, and no qpair is linked twice; every qpair on the
\* list when the needs_poll pass of process_completions starts is polled in
\* that pass and is on the list afterwards only if it was inserted again
\* during the pass; a qpair that was disconnected or removed from the poll
\* group in a step is not on the list when the step ends.
C31_NeedsPollList ==
    /\ \A q \in NpQpairs : pgroup.q[q].needs_poll <=> q \in NpLinked
    /\ Len(pgroup.needs_poll) = Cardinality(NpLinked)
    /\ ~pgroup.crashed
    /\ pgroup.op = "process_completions" =>
           \A q \in pgroup.start :
               /\ InSeq(pgroup.polled, q)
               /\ q \in NpLinked => q \in pgroup.readded
    /\ \A q \in pgroup.gone : q \notin NpLinked

\* A pass that started with both qpairs on the list, polled both and ended
\* with one of them inserted again by a write that finished meanwhile.
C31_Witness ==
    /\ pgroup.op = "process_completions"
    /\ pgroup.start = NpQpairs
    /\ Len(pgroup.polled) >= 2
    /\ NpLinked # {}

\* A qpair is disconnected while it is on the list and has PDUs with its socket.
C31_WitnessDisconnect ==
    /\ pgroup.op = "disconnect"
    /\ pgroup.gone # {}
    /\ pgroup.readded # {}

\* C32: the index stored on a pending request whose last sendmsg was
\* zero-copy is the number the error queue reports for that call, its
\* zero-based ordinal among the socket's zero-copy calls modulo 2^32, also
\* for the calls around the wrap of sendmsg_idx from UINT32_MAX to 1.
C32_StoredIndexIsOrdinal ==
    \A i \in 1..Len(sock.pending_reqs) :
        sock.pending_reqs[i].is_zcopy =>
            sock.pending_reqs[i].offset =
                sock.pending_reqs[i].sent_by[Len(sock.pending_reqs[i].sent_by)]

XgOn(l, s) == InSeq(l, s)

XgNoDup(l) == \A i, j \in 1..Len(l) : l[i] = l[j] => i = j

\* The sockets of the group that hold ring entry r.
XgRingUsers(r) == {s \in XgSocks : xgroup.s[s].group_impl /\ xgroup.s[s].ring_fd = r}

\* C33: for a socket in the group pending_recv is true exactly when the
\* socket is on the group's pending_recv list, pending_send exactly when it is
\* on pending_send, and neither list holds a socket twice; a socket that has
\* been removed from the group is on neither list and holds no ring entry; a
\* ring entry on the group's list counts the sockets of the group that use
\* it and is freed, and off the list, when the last of them is removed.
C33_PendingLists ==
    /\ \A s \in XgSocks :
           /\ xgroup.s[s].group_impl =>
                  /\ xgroup.s[s].pending_recv <=> XgOn(xgroup.pending_recv, s)
                  /\ xgroup.s[s].pending_send <=> XgOn(xgroup.pending_send, s)
           /\ ~xgroup.s[s].group_impl =>
                  /\ ~XgOn(xgroup.pending_recv, s)
                  /\ ~XgOn(xgroup.pending_send, s)
    /\ XgNoDup(xgroup.pending_recv) /\ XgNoDup(xgroup.pending_send)
    /\ XgNoDup(xgroup.ring_fd)
    /\ \A i \in 1..Len(xgroup.ring_fd) :
           /\ ~xgroup.rings[xgroup.ring_fd[i]].freed
           /\ xgroup.rings[xgroup.ring_fd[i]].refs = Cardinality(XgRingUsers(xgroup.ring_fd[i]))
           /\ xgroup.rings[xgroup.ring_fd[i]].refs >= 1
    /\ \A r \in 1..Len(xgroup.rings) :
           xgroup.rings[r].freed => XgRingUsers(r) = {} /\ xgroup.rings[r].refs = 0

\* The place of socket s on list l.
XgPos(l, s) == CHOOSE i \in 1..Len(l) : l[i] = s

\* What a poll that has just returned handed out.
XgPollReturn ==
    xgroup.op = "poll" =>
        /\ ~xgroup.over
        /\ XgNoDup(xgroup.returned)
        /\ \A i \in 1..Len(xgroup.returned) :
               /\ xgroup.s[xgroup.returned[i]].cb_fn
               /\ ~XgOn(xgroup.pending_recv, xgroup.returned[i])
               /\ ~xgroup.s[xgroup.returned[i]].pending_recv

\* A socket of the group that stays on pending_recv over a step keeps its
\* place ahead of every socket that is put on the list in the step, and a
\* poll that leaves it on the list has returned only sockets that were on the
\* list before it.
XgPendingOrder ==
    \A a \in XgSocks :
        (/\ XgOn(xgroup.pending_recv, a) /\ XgOn(xgroup'.pending_recv, a)
         /\ xgroup.s[a].group_impl /\ xgroup'.s[a].group_impl)
            => /\ \A b \in XgSocks \ {a} :
                      XgOn(xgroup'.pending_recv, b) =>
                          \/ XgPos(xgroup'.pending_recv, a) < XgPos(xgroup'.pending_recv, b)
                          \/ /\ XgOn(xgroup.pending_recv, b)
                             /\ XgPos(xgroup.pending_recv, b) < XgPos(xgroup.pending_recv, a)
               /\ \A i \in 1..Len(xgroup'.returned) :
                      /\ XgOn(xgroup.pending_recv, xgroup'.returned[i])
                      /\ XgPos(xgroup.pending_recv, xgroup'.returned[i])
                             < XgPos(xgroup.pending_recv, a)

\* C34: a group poll returns at most max_events sockets, each once and each
\* with a callback, and every returned socket is off pending_recv; a socket
\* that stays pending because max_events was reached keeps its place ahead of
\* the sockets that become pending later, and a poll returns no socket that
\* became pending after one it leaves on the list.
C34_PollReturnsInOrder == []XgPollReturn /\ [][XgPendingOrder]_vars

\* A poll with max_events 1 returned one socket and left the other, which is
\* still in the group, on pending_recv.
C34_Witness ==
    /\ xgroup.op = "poll"
    /\ Len(xgroup.returned) = 1
    /\ \E s \in XgSocks :
           /\ xgroup.pending_recv = <<s>>
           /\ xgroup.s[s].group_impl
           /\ xgroup.s[s].packets > 0

\* Socket s still has requests on its queued list.
XgQueued(s) == xgroup.s[s].group_impl /\ xgroup.s[s].queued_reqs # <<>>

\* C38: when writev_async returns with requests still queued on a socket of
\* the group, and when a group poll returns with requests still queued on
\* one, the socket is on the group's pending_send list, so that the next
\* poll flushes it.
C38_QueuedIsPendingSend ==
    /\ xgroup.op = "writev_async" /\ XgQueued(xgroup.arg)
           => XgOn(xgroup.pending_send, xgroup.arg)
    /\ xgroup.op = "poll" =>
           \A s \in XgSocks : XgQueued(s) => XgOn(xgroup.pending_send, s)


\* A step in which xlio_sock_flush_now ran with batching enabled, and what
\* held when it was called.
BatchCall == vsock'.flush_now \notin {"none", "always"}
BatchBytesReached == SeqSum(vsock.queued_reqs) >= vsock.flush_batch_bytes_threshold
BatchQueueReached == vsock.queued_iovcnt >= vsock.batch_nr
BatchTimedOut == batch_timed_out(vsock)
BatchHalved == spdk_max(vsock.batch_nr \div 2, 1)
BatchGrown == spdk_min(vsock.batch_nr + 1, vsock.flush_batch_iovcnt_threshold)

BatchWithheldOnlyBelow ==
    BatchCall /\ vsock'.flush_now = "withheld"
        => ~BatchBytesReached /\ ~BatchQueueReached /\ ~BatchTimedOut

BatchNrAsStated ==
    IF ~BatchCall \/ vsock'.flush_now = "withheld" \/ BatchBytesReached
    THEN vsock'.batch_nr = vsock.batch_nr
    ELSE IF BatchTimedOut /\ BatchQueueReached
    THEN vsock'.batch_nr \in {BatchHalved, BatchGrown}
    ELSE IF BatchTimedOut THEN vsock'.batch_nr = BatchHalved
    ELSE vsock'.batch_nr = BatchGrown

BatchNrAmended ==
    IF ~BatchCall \/ vsock'.flush_now = "withheld" \/ BatchBytesReached
    THEN vsock'.batch_nr = vsock.batch_nr
    ELSE IF BatchTimedOut /\ BatchQueueReached
    THEN vsock'.batch_nr = vsock.batch_nr
    ELSE IF BatchTimedOut THEN vsock'.batch_nr = BatchHalved /\ vsock'.batch_nr >= 1
    ELSE /\ vsock'.batch_nr = BatchGrown
         /\ vsock'.batch_nr <= vsock.flush_batch_iovcnt_threshold

C35_WitnessHalved ==
    /\ vsock.flush_now = "timeout" /\ vsock.batch_nr = 1
    /\ vsock.queued_iovcnt = 1 /\ vsock.flush_batch_iovcnt_threshold > 1


\* The zero-copy sendmsg calls that carried bytes of the i-th completed
\* request.
SockSentBy(i) == {sock.done_sent_by[i][k] : k \in 1..Len(sock.done_sent_by[i])}

\* C39: a request any part of which went out with a zero-copy sendmsg has
\* completed only if the acknowledgements reaped cover every such call, also
\* when a later sendmsg without zero-copy sent its remainder.
C39_ZcopyCompletedAfterAck ==
    \A i \in 1..Len(sock.completed) : \A c \in SockSentBy(i) : c < sock.acked


\* The i-th change of the receive state in the last operation.
RecvChangeOk(i) ==
    LET from == rqpair.path[i]
        to == rqpair.path[i + 1]
    IN  /\ to = "AWAIT_PDU_PSH" => from = "AWAIT_PDU_CH"
        /\ to = "AWAIT_PDU_PAYLOAD" => from = "AWAIT_PDU_PSH"
        /\ to = "ERROR" => from = "QUIESCING"

RecvHandledOk(h) ==
    /\ h.ch_valid_bytes = COMMON_PDU_HDR_LEN /\ h.ch_ok
    /\ h.recv_state = IF h.handler = "psh" THEN "AWAIT_PDU_PSH"
                      ELSE "AWAIT_PDU_PAYLOAD"

\* C36: AWAIT_PDU_PSH is entered only from AWAIT_PDU_CH, with the common
\* header complete and accepted, AWAIT_PDU_PAYLOAD only from AWAIT_PDU_PSH,
\* ERROR only from QUIESCING and with nothing outstanding (the assertion of
\* the setter holds); no bytes are read and no PDU is handled in QUIESCING
\* or ERROR.
C36_ReceivePhases ==
    /\ \A i \in 1..(Len(rqpair.path) - 1) : RecvChangeOk(i)
    /\ ~rqpair.assert_failed
    /\ rqpair.recv_state \in {"AWAIT_PDU_PSH", "AWAIT_PDU_PAYLOAD"}
           => /\ rqpair.pdu.ch_valid_bytes = COMMON_PDU_HDR_LEN
              /\ rqpair.stream[rqpair.next].ch_ok
    /\ \A k \in 1..Len(rqpair.handled) : RecvHandledOk(rqpair.handled[k])
    /\ rqpair.read_in \cap {"QUIESCING", "ERROR"} = {}

\* A poll found the qpair QUIESCING after a rejected header, with nothing
\* outstanding and bytes waiting in the socket, and left them there.
C36_Witness ==
    /\ rqpair.path = <<"QUIESCING", "ERROR">>
    /\ rqpair.sock > 0 /\ rqpair.read_in = {}

\* One poll read a whole C2H_DATA PDU through all its phases.
C36_WitnessPhases ==
    rqpair.path = <<"AWAIT_PDU_READY", "AWAIT_PDU_CH", "AWAIT_PDU_PSH",
                    "AWAIT_PDU_PAYLOAD", "AWAIT_PDU_READY", "AWAIT_PDU_CH">>


\* The request of the submit that has just returned holds nothing of the
\* transport.
SubmitLeftNoTrace(r) ==
    /\ tcp_reqs[r].state = "FREE"
    /\ \A c \in Cids : tqpair.tcp_reqs_lookup[c] # r
    /\ ~InSeq(tqpair.outstanding_reqs, r)
    /\ \A i \in 1..Len(tqpair.send_queue) : tqpair.send_queue[i].req # r

\* C37: a failed submit leaves no trace: whenever submit returns a non-zero
\* code, the request holds no CID, is absent from the CID lookup table and
\* from the outstanding list and has no PDU on the send queue.
C37_FailedSubmitLeavesNoTrace ==
    hist.submit.ret \notin {"none", "OK"} => SubmitLeftNoTrace(hist.submit.req)


\* The header of a C2H_DATA PDU was accepted and its payload is awaited.
C2hDataAccepted ==
    /\ tqpair.recv_state = "AWAIT_PDU_PAYLOAD"
    /\ tqpair.recv_pdu.type = "C2H_DATA"

\* The range of the accepted PDU starts where the ranges before it ended and
\* ends inside the payload.
C2hDataInRange ==
    /\ \A r \in Reqs : tcp_reqs[r].expected_datao <= PayloadSize
    /\ C2hDataAccepted =>
           tcp_reqs[tqpair.recv_pdu.req].expected_datao + tqpair.recv_pdu.data_len
               <= PayloadSize

\* expected_datao of a request moves only by the length of an accepted PDU
\* for it (or back to 0 when the request object is taken again): a PDU that
\* is turned away changes nothing of the request.
C2hDataApplied ==
    \A r \in Reqs :
        tcp_reqs'[r].expected_datao \notin {tcp_reqs[r].expected_datao, 0}
            => /\ C2hDataAccepted
               /\ tqpair.recv_pdu.req = r
               /\ tcp_reqs'[r].expected_datao
                      = tcp_reqs[r].expected_datao + tqpair.recv_pdu.data_len

\* While the qpair waits for the payload of an accepted PDU some of its bytes
\* have not arrived yet.
C2hDataBytesAwaited ==
    C2hDataAccepted => tqpair.recv_pdu.rw_offset < tqpair.recv_pdu.data_len

\* C40: the C2H_DATA PDUs accepted for a request carry contiguous ranges
\* from offset 0 that end inside the payload (expected_datao, the sum of the
\* accepted lengths, never exceeds payload_size), a PDU that is turned away
\* is not applied to the request, and every accepted C2H_DATA, also one with
\* datal = 0, has left AWAIT_PDU_PAYLOAD once all its bytes have arrived.
C40_C2hDataRanges ==
    /\ [](C2hDataInRange /\ C2hDataBytesAwaited)
    /\ [][C2hDataApplied]_vars

============================================================================
